---------------------------- MODULE Spec2Model ----------------------------
(***************************************************************************)
(* Model of the feature-engineering and prediction core of the NBA injury  *)
(* impact analyzer: backend/ml/feature_builder.py, backend/ml/predict.py,  *)
(* backend/ml/ripple_model.py, backend/ml/config.py and                    *)
(* backend/scripts/process_data.py; and of the concurrent parts of the     *)
(* API and the collection script: backend/api/data_access.py,              *)
(* backend/api/routes/admin.py, backend/api/scheduler.py,                  *)
(* backend/api/dependencies.py, backend/api/routes/chat.py and             *)
(* backend/scripts/collect_player_stats.py.                                *)
(*                                                                         *)
(* Eleven specifications share the module:                                 *)
(*   SpecFB    the feature builder (single-row and batch construction)     *)
(*   SpecTrain role detection and the training-time injury context         *)
(*   SpecServe the serving engine over a processed dataset                 *)
(*   SpecRippleTrainer   the choice of the ripple formulation              *)
(*   SpecModelStore      the lazily loading model store under threads      *)
(*   SpecPlayerFeatures  build_player_features and the row a call builds   *)
(*   SpecRetrain         a serving process loading the ripple artifacts    *)
(*                       while the trainer runs again                      *)
(*   SpecDataStore       DataStore.load_all against the query methods      *)
(*   SpecRefresh         requested and scheduled refresh runs              *)
(*   SpecChat            the daily chat limit under concurrent requests    *)
(*   SpecCollect         the game-log collection, interrupted and resumed  *)
(***************************************************************************)
EXTENDS Integers, Sequences, FiniteSets, TLC

VARIABLES
    fbTable,      \* feature builder: the rows handed to the builder (list of dicts)
    fbFeatures,   \* feature builder: the ordered feature-name list
    fbVecs,       \* result of build_feature_vector per row (not done before the call)
    fbMat,        \* result of build_feature_matrix (not done before the call)
    trPc,         \* training pipeline: "idle", "start", "roles", "loop"
    player_avgs,  \* per (player, team, season) averages and games played
    trGames,      \* (game, team) combinations of the game logs, in file order,
                  \* each with the absent ids the absence table gives for it
    roles,        \* detect_player_roles' result
    role_lookup,  \* (team, season) -> role rows sorted by avg_minutes descending
    game_team_combos, \* the combinations sorted by game_date
    trIdx,        \* number of combinations processed so far
    config_counter,   \* (team, config hash) -> games seen so far
    injury_features_records,  \* one record per processed combination
    \* the prediction engine
    data,                     \* ModelStore.player_data: the processed dataset
    ripple_metadata,          \* ripple_metadata.json: the chosen formulation, "A" or "B",
                              \* and twice the median sensitivity
    svCall,                   \* the call made to the engine
    svOut,                    \* what the call returned or raised
    \* the ripple trainer (ripple_model.py)
    rtPc,                     \* "idle", "sensitivity", "done"
    injury_test_empty,        \* the test set has no game with a starter out
    mean_ripples,             \* mean |ripple| of the statistics evaluated so far
    ripple_features,          \* ripple_features.json as saved by the trainer
    chosen,                   \* the trainer's decision, "" before it is taken
    median_ripple,            \* twice the trainer's median_ripple
    rtIdx,                    \* ripple models saved so far in this run
    ripple_model_files,       \* ripple_<stat>.joblib: the formulation of the model
                              \* in the file, "" while there is no file
    run,                      \* number of the training run (1, 2, ...)
    file_run,                 \* per artifact file, the run that wrote it (0: none)
    \* the ModelStore singleton, the model directory and the threads using them
    missing,                  \* artifacts absent from the model directory
    preload,                  \* the process runs the API lifespan's preload first
    heap,                     \* the dict objects built by the getters: keys loaded
    _baseline_models,         \* ModelStore._baseline_models: 0 (None) or a dict of heap
    _ripple_models,           \* ModelStore._ripple_models: 0 (None) or a dict of heap
    _baseline_features,       \* ModelStore._baseline_features is loaded
    _ripple_features,         \* ModelStore._ripple_features is loaded
    th,                       \* per thread: position, call, locals, last outcome
    returned,                 \* the model dicts the getters have returned, as returned
    \* build_player_features (process_data.py) and the scenario row built on its output
    game_logs,                \* the cleaned game logs, sorted by (player_id, game_date)
    features_df,              \* build_player_features(game_logs)
    changed_game,             \* position of the game whose box score was changed, 0 if none
    changed_df,               \* build_player_features of the changed game logs
    scenario_row,             \* what _build_row_data returned or raised
    \* a serving process loading the ripple artifacts while the trainer re-runs
    rsPc,                     \* position of the serving process
    rsIdx,                    \* ripple models loaded so far by get_ripple_models
    store_ripple_models,      \* ModelStore._ripple_models: None or, per statistic,
                              \* the model loaded and the run that wrote its file
    store_ripple_features,    \* ModelStore._ripple_features: None or the list and its run
    store_ripple_metadata,    \* ModelStore._ripple_metadata: None or the metadata and its run
    used,                     \* the artifacts a prediction was computed with
    \* the API's in-memory DataStore (api/data_access.py)
    _processed_df,            \* DataStore._processed_df: the load that built the frame
    _rosters_df,              \* DataStore._rosters_df
    _absences_df,             \* DataStore._absences_df
    _schedule_df,             \* DataStore._schedule_df
    ldPc,                     \* position of the thread running load_all
    loads,                    \* load_all calls started so far
    rd,                       \* per request thread: the query it runs and what it has read
    \* the refresh runs (api/routes/admin.py, api/scheduler.py)
    _refresh_in_progress,     \* admin.py's module-level guard
    adm,                      \* per request thread: position in trigger_refresh and response
    job,                      \* the scheduler's daily_refresh job: position and runs so far
    \* the chat rate limit (api/dependencies.py, api/routes/chat.py)
    chat_usage,               \* the chat_usage rows of one user and day: question_count each
    ch,                       \* per request thread: position in POST /api/chat, the
                              \* ChatUsage object of its session, and the response
    answered,                 \* chat questions of the user answered that day
    \* the game-log collection (scripts/collect_player_stats.py)
    checkpoint_file,          \* collect_stats_checkpoint.json: its game_logs_completed
    output_game_logs,         \* player_game_logs.csv: whether it exists and its rows,
                              \* a row being the pair of its season and the run that fetched it
    cl                        \* the collection process: position and local variables

fbVars == <<fbTable, fbFeatures, fbVecs, fbMat>>
trVars == <<trPc, player_avgs, trGames, roles, role_lookup, game_team_combos,
            trIdx, config_counter, injury_features_records>>
svVars == <<data, ripple_metadata, svCall, svOut>>
rtVars == <<rtPc, injury_test_empty, mean_ripples, ripple_features, chosen, median_ripple,
            rtIdx, ripple_model_files, run, file_run>>
msVars == <<missing, preload, heap, _baseline_models, _ripple_models, _baseline_features,
            _ripple_features, th, returned>>
pfVars == <<game_logs, features_df, changed_game, changed_df, scenario_row>>
rsVars == <<rsPc, rsIdx, store_ripple_models, store_ripple_features, store_ripple_metadata,
            used>>
dsVars == <<_processed_df, _rosters_df, _absences_df, _schedule_df, ldPc, loads, rd>>
rfVars == <<_refresh_in_progress, adm, job>>
chVars == <<chat_usage, ch, answered>>
clVars == <<checkpoint_file, output_game_logs, cl>>
zVars == <<dsVars, rfVars, chVars, clVars>>
yVars == <<rsVars, zVars>>
xVars == <<rtVars, msVars, pfVars, yVars>>

vars == <<fbVars, trVars, svVars, xVars>>

(***************************************************************************)
(* Generic helpers                                                         *)
(***************************************************************************)
Range(f) == {f[i] : i \in DOMAIN f}

SeqsUpTo(S, n) == UNION {[1..k -> S] : k \in 0..n}

(***************************************************************************)
(* Cell values.  A cell of a row is a number, a string (kept as its list   *)
(* of characters so that upper-casing and substring tests are computed),   *)
(* or the missing value NaN/None.                                          *)
(***************************************************************************)
Num(n) == [t |-> "num", n |-> n, s |-> <<>>]
Str(s) == [t |-> "str", n |-> 0, s |-> s]
NaN == [t |-> "nan", n |-> 0, s |-> <<>>]

\* the key is not in the dict at all
Absent == [t |-> "absent", n |-> 0, s |-> <<>>]

\* pd.notna
notna(v) == v.t # "nan"

Digits == <<"0", "1", "2", "3", "4", "5", "6", "7", "8", "9">>

DigitVal(c) == CHOOSE d \in 0..9 : Digits[d + 1] = c

IsDigit(c) == \E d \in 0..9 : Digits[d + 1] = c

\* str.upper on one character (the letters that occur in the modelled inputs)
UpperChar(c) ==
    CASE c = "g" -> "G" [] c = "f" -> "F" [] c = "c" -> "C"
      [] c = "h" -> "H" [] c = "o" -> "O" [] c = "m" -> "M" [] c = "e" -> "E"
      [] c = "a" -> "A" [] c = "w" -> "W" [] c = "y" -> "Y" [] c = "b" -> "B"
      [] OTHER -> c

upper(s) == [i \in 1..Len(s) |-> UpperChar(s[i])]

\* Python's `c in s` for a one-character needle
Contains(s, c) == \E i \in 1..Len(s) : s[i] = c

\* str(value): a string is itself, a one-digit number is its digit
str(v) == IF v.t = "str" THEN v.s ELSE IF v.t = "num" THEN <<Digits[v.n + 1]>> ELSE <<"n", "a", "n">>

RECURSIVE ParseDigits(_)
ParseDigits(s) == IF s = <<>> THEN 0 ELSE 10 * ParseDigits(SubSeq(s, 1, Len(s) - 1)) + DigitVal(s[Len(s)])

\* a coercion that turns what is no number into 0 instead of NaN
to_numeric_or_zero(v) ==
    IF v.t = "num" THEN Num(v.n)
    ELSE IF v.t = "str" /\ v.s # <<>> /\ \A i \in 1..Len(v.s) : IsDigit(v.s[i])
         THEN Num(ParseDigits(v.s))
         ELSE Num(0)

\* pd.to_numeric(val, errors="coerce") followed by the float64 cast:
\* a number stays, a string of digits is parsed, anything else becomes NaN
to_numeric(v) ==
    IF v.t = "num" THEN Num(v.n)
    ELSE IF v.t = "str" /\ v.s # <<>> /\ \A i \in 1..Len(v.s) : IsDigit(v.s[i])
         THEN Num(ParseDigits(v.s))
         ELSE NaN

\* `key in row`
Has(row, key) == key \in DOMAIN row /\ row[key].t # "absent"

\* dict.get(key) with default None
Get(row, key) == IF Has(row, key) THEN row[key] ELSE NaN

(***************************************************************************)
(* feature_builder.py                                                      *)
(***************************************************************************)
DerivedNames == {"pos_G", "pos_F", "pos_C", "is_home"}

_encode_position(position_value) ==
    LET pos_str == upper(str(position_value))
        ok == notna(position_value)
    IN  [pos_G |-> IF ok /\ Contains(pos_str, "G") THEN 1 ELSE 0,
         pos_F |-> IF ok /\ Contains(pos_str, "F") THEN 1 ELSE 0,
         pos_C |-> IF ok /\ Contains(pos_str, "C") THEN 1 ELSE 0]

_encode_home_away(home_away_value) ==
    IF notna(home_away_value)
    THEN (IF upper(str(home_away_value)) = <<"H", "O", "M", "E">> THEN 1 ELSE 0)
    ELSE 0

build_feature_vector(row_data, feature_list) ==
    LET pos == _encode_position(Get(row_data, "position"))
        derived == [pos_G |-> pos.pos_G, pos_F |-> pos.pos_F, pos_C |-> pos.pos_C,
                    is_home |-> _encode_home_away(Get(row_data, "home_away"))]
    IN  [i \in 1..Len(feature_list) |->
            LET name == feature_list[i]
            IN  IF name \in DOMAIN derived THEN Num(derived[name])
                ELSE IF Has(row_data, name) THEN to_numeric(row_data[name])
                ELSE NaN]

\* pd.DataFrame(rows): the columns are the union of the rows' keys and a row
\* lacking a column holds NaN in it
Columns(df) == UNION {{k \in DOMAIN df[r] : Has(df[r], k)} : r \in 1..Len(df)}

Cell(df, r, name) == Get(df[r], name)

\* fillna("").astype(str).str.upper() on one cell
FillStrUpper(v) == IF notna(v) THEN upper(str(v)) ELSE <<>>

\* np.column_stack: raises ValueError on an empty list of columns
column_stack(n_rows, cols) ==
    IF Len(cols) = 0
    THEN [ok |-> FALSE, m |-> <<>>]
    ELSE [ok |-> TRUE, m |-> [r \in 1..n_rows |-> [i \in 1..Len(cols) |-> cols[i][r]]]]

build_feature_matrix(df, feature_list) ==
    LET n == Len(df)
        cols == Columns(df)
        pos_str == [r \in 1..n |-> FillStrUpper(Cell(df, r, "position"))]
        result_df == [name \in DerivedNames |->
            CASE name = "pos_G" ->
                   [r \in 1..n |-> IF "position" \in cols /\ Contains(pos_str[r], "G") THEN 1 ELSE 0]
              [] name = "pos_F" ->
                   [r \in 1..n |-> IF "position" \in cols /\ Contains(pos_str[r], "F") THEN 1 ELSE 0]
              [] name = "pos_C" ->
                   [r \in 1..n |-> IF "position" \in cols /\ Contains(pos_str[r], "C") THEN 1 ELSE 0]
              [] name = "is_home" ->
                   [r \in 1..n |->
                      IF "home_away" \in cols
                         /\ FillStrUpper(Cell(df, r, "home_away")) = <<"H", "O", "M", "E">>
                      THEN 1 ELSE 0]]
        matrix_cols == [i \in 1..Len(feature_list) |->
            LET name == feature_list[i]
            IN  IF name \in DerivedNames THEN [r \in 1..n |-> Num(result_df[name][r])]
                ELSE IF name \in cols THEN [r \in 1..n |-> to_numeric(Cell(df, r, name))]
                ELSE [r \in 1..n |-> NaN]]
    IN  column_stack(n, matrix_cols)

(***************************************************************************)
(* Numbers.  Averages and totals are kept in thousandths of a unit, so     *)
(* that rounding to two decimals (round(x, 2)) is a computation.           *)
(***************************************************************************)
\* round(x, 2) of a value in thousandths: the nearest hundredth, ties to even
round2(x) ==
    LET q == x \div 10
        r == x % 10
    IN  IF r < 5 THEN 10 * q
        ELSE IF r > 5 THEN 10 * (q + 1)
        ELSE IF q % 2 = 0 THEN 10 * q ELSE 10 * (q + 1)

SetMax(S) == CHOOSE m \in S : \A x \in S : x <= m

RECURSIVE SumOver(_, _)
SumOver(S, f) ==
    IF S = {} THEN 0
    ELSE LET x == CHOOSE y \in S : TRUE IN f[x] + SumOver(S \ {x}, f)

\* sorted(collection): ascending, duplicates kept
RECURSIVE sorted(_)
sorted(q) ==
    IF Len(q) = 0 THEN <<>>
    ELSE LET i == CHOOSE k \in 1..Len(q) : \A j \in 1..Len(q) : q[k] <= q[j]
         IN  <<q[i]>> \o sorted([k \in 1..(Len(q) - 1) |-> IF k < i THEN q[k] ELSE q[k + 1]])

\* a set as a list, in some order (Python iterates a set in no particular order)
RECURSIVE SetToSeq(_)
SetToSeq(S) ==
    IF S = {} THEN <<>>
    ELSE LET x == CHOOSE y \in S : \A z \in S : y >= z IN <<x>> \o SetToSeq(S \ {x})

\* the sub-list of q at the positions in I, order kept
RECURSIVE Pick(_, _)
Pick(q, I) ==
    IF I = {} THEN <<>>
    ELSE LET i == CHOOSE k \in I : \A j \in I : k <= j IN <<q[i]>> \o Pick(q, I \ {i})

\* DataFrame.sort_values(key, ascending=False) as a list of positions.  Rows
\* with equal keys come out in their original order when the sort happens
\* to be stable (stable = TRUE) and reversed otherwise: the default
\* quicksort gives no guarantee.
SortDescIdx(keys, stable) ==
    LET n == Len(keys)
        before(j, i) == IF stable THEN j < i ELSE j > i
        rank(i) == Cardinality({j \in 1..n :
                       keys[j] > keys[i] \/ (keys[j] = keys[i] /\ before(j, i))})
    IN  [k \in 1..n |-> CHOOSE i \in 1..n : rank(i) = k - 1]

(***************************************************************************)
(* process_data.py: detect_player_roles                                    *)
(***************************************************************************)
MIN_GAMES_FOR_ROLE == 20

NoRoles(r) ==
    [player_id |-> r.player_id, team_id |-> r.team_id, season |-> r.season,
     avg_pts |-> r.avg_pts, avg_ast |-> r.avg_ast, avg_reb |-> r.avg_reb,
     avg_stl |-> r.avg_stl, avg_blk |-> r.avg_blk, avg_minutes |-> r.avg_minutes,
     games_played |-> r.games_played,
     is_starter |-> FALSE, role_ball_handler |-> FALSE, role_scorer |-> FALSE,
     role_rebounder |-> FALSE, role_defender |-> FALSE, role_sixth_man |-> FALSE,
     avg_stl_blk |-> r.avg_stl + r.avg_blk]

\* nlargest with keep="all": rows tied with the n-th largest are kept too
nlargest_keep_all(q, G, n) ==
    {i \in G : Cardinality({j \in G : q[j].avg_minutes > q[i].avg_minutes}) < n}

\* DataFrame.nlargest(n, "avg_minutes") over the rows G of q: the n rows with
\* the largest minutes, the first rows winning ties (keep="first")
nlargest(q, G, n) ==
    {i \in G : Cardinality({j \in G : q[j].avg_minutes > q[i].avg_minutes
                                      \/ (q[j].avg_minutes = q[i].avg_minutes /\ j < i)}) < n}

\* Series.idxmax(): the first row holding the maximum
idxmax(col, G) ==
    CHOOSE i \in G : /\ \A j \in G : col[j] <= col[i]
                     /\ \A j \in G : col[j] = col[i] => i <= j

AvgMinutes(r) == r.avg_minutes
AvgAst(r) == r.avg_ast
AvgPts(r) == r.avg_pts
AvgReb(r) == r.avg_reb
AvgStlBlk(r) == r.avg_stl + r.avg_blk

\* the starters of the team-season group G of the qualified rows q
starter_ids(q, G) ==
    IF Cardinality(G) < 5 THEN nlargest(q, G, Cardinality(G)) ELSE nlargest(q, G, 5)

\* a role given to the first starter holding the maximum only
RoleHoldersFirst(col, S) ==
    IF S = {} THEN {} ELSE {idxmax(col, S)}

\* the starters holding the maximum of a role's statistic (all tied ones)
RoleHolders(col, S) ==
    IF S = {} THEN {} ELSE {i \in S : col[i] = SetMax({col[j] : j \in S})}

SixthMan(q, G) ==
    LET non_starters == G \ starter_ids(q, G)
    IN  IF non_starters = {} THEN {} ELSE {idxmax([j \in non_starters |-> AvgMinutes(q[j])], non_starters)}

\* a pool that a player enters only with more games than the minimum
QualifiesAbove(r) == r.games_played > MIN_GAMES_FOR_ROLE

\* line 185: player_avgs["games_played"] >= MIN_GAMES_FOR_ROLE
Qualifies(r) == r.games_played >= MIN_GAMES_FOR_ROLE

detect_player_roles(avgs) ==
    LET qpos == {i \in 1..Len(avgs) : Qualifies(avgs[i])}
        upos == {i \in 1..Len(avgs) : ~Qualifies(avgs[i])}
        q == Pick(avgs, qpos)
        group(i) == {j \in 1..Len(q) : q[j].team_id = q[i].team_id /\ q[j].season = q[i].season}
        qualified == [i \in 1..Len(q) |->
            LET G == group(i)
                S == starter_ids(q, G)
            IN  [NoRoles(q[i]) EXCEPT
                    !.is_starter = i \in S,
                    !.role_ball_handler = i \in RoleHolders([j \in S |-> AvgAst(q[j])], S),
                    !.role_scorer = i \in RoleHolders([j \in S |-> AvgPts(q[j])], S),
                    !.role_rebounder = i \in RoleHolders([j \in S |-> AvgReb(q[j])], S),
                    !.role_defender = i \in RoleHolders([j \in S |-> AvgStlBlk(q[j])], S),
                    !.role_sixth_man = i \in SixthMan(q, G)]]
        unqualified == [i \in 1..Cardinality(upos) |-> NoRoles(Pick(avgs, upos)[i])]
    IN  qualified \o unqualified

(***************************************************************************)
(* process_data.py: build_injury_context_features                          *)
(***************************************************************************)
\* hashlib.md5(config_str).hexdigest()[:12] of the comma-joined ids, kept as
\* the id list itself: two joined strings are equal exactly when the lists
\* are, and the digest is taken to separate different strings
md5_12(id_list) == [healthy |-> FALSE, ids |-> id_list]

Healthy == [healthy |-> TRUE, ids |-> <<>>]

\* lines 441-447: the role rows of one team-season, by avg_minutes descending
RoleLookup(rs, team_id, season, stable) ==
    LET group == SelectSeq(rs, LAMBDA r : r.team_id = team_id /\ r.season = season)
        order == SortDescIdx([i \in 1..Len(group) |-> group[i].avg_minutes], stable)
    IN  [k \in 1..Len(group) |-> group[order[k]]]

\* lines 482-486: the five starter slots, padded with the sentinel -1
StarterSlots(team_roles) ==
    LET starters == SelectSeq(team_roles, LAMBDA r : r.is_starter)
    IN  [i \in 1..5 |-> IF i <= Len(starters) THEN starters[i].player_id ELSE -1]

Flag(b) == IF b THEN 1 ELSE 0

\* lines 534-537: the identity of an absence configuration
ConfigHash(absent_ids) ==
    LET sorted_absent == sorted(SetToSeq(absent_ids))
    IN  IF sorted_absent # <<>> THEN md5_12(sorted_absent) ELSE Healthy

\* a counter key that forgets the team
ConfigKeyAnyTeam(team_id, config_hash) == <<"", config_hash>>

\* line 540: the key of the experience counter
ConfigKey(team_id, config_hash) == <<team_id, config_hash>>

\* lines 540-542: the counter after the record of a combination
Advance(counter, record) ==
    (ConfigKey(record.team_id, record.injury_config_hash)
        :> (record.games_with_this_config + 1)) @@ counter

\* lines 476-561: the record of one (game, team) combination
InjuryRecord(game_id, team_id, team_roles, absent_ids, counter) ==
    LET slots == StarterSlots(team_roles)
        starter_flags == [i \in 1..5 |-> Flag(slots[i] \in absent_ids)]
        out == {k \in 1..Len(team_roles) : team_roles[k].player_id \in absent_ids}
        rotation_ids == {team_roles[k].player_id : k \in 1..Len(team_roles) \cap 1..8}
        config_hash == ConfigHash(absent_ids)
        config_key == ConfigKey(team_id, config_hash)
    IN  [game_id |-> game_id,
         team_id |-> team_id,
         n_starters_out |-> SumOver(1..5, starter_flags),
         starter_out |-> starter_flags,
         ball_handler_out |-> Flag(\E k \in out : team_roles[k].role_ball_handler),
         primary_scorer_out |-> Flag(\E k \in out : team_roles[k].role_scorer),
         primary_rebounder_out |-> Flag(\E k \in out : team_roles[k].role_rebounder),
         primary_defender_out |-> Flag(\E k \in out : team_roles[k].role_defender),
         sixth_man_out |-> Flag(\E k \in out : team_roles[k].role_sixth_man),
         n_rotation_players_out |-> Cardinality(absent_ids \cap rotation_ids),
         total_pts_lost |-> round2(SumOver(out, [k \in out |-> team_roles[k].avg_pts])),
         total_ast_lost |-> round2(SumOver(out, [k \in out |-> team_roles[k].avg_ast])),
         total_reb_lost |-> round2(SumOver(out, [k \in out |-> team_roles[k].avg_reb])),
         total_minutes_lost |-> round2(SumOver(out, [k \in out |-> team_roles[k].avg_minutes])),
         injury_config_hash |-> config_hash,
         games_with_this_config |->
             IF config_key \in DOMAIN counter THEN counter[config_key] ELSE 0]

(***************************************************************************)
(* config.py                                                               *)
(***************************************************************************)
STAT_NAMES == <<"pts", "ast", "reb", "stl", "blk", "fg_pct", "ft_pct", "minutes">>

INJURY_FEATURES ==
    <<"n_starters_out", "starter_1_out", "starter_2_out", "starter_3_out",
      "starter_4_out", "starter_5_out", "ball_handler_out", "primary_scorer_out",
      "primary_rebounder_out", "primary_defender_out", "sixth_man_out",
      "n_rotation_players_out", "total_pts_lost", "total_ast_lost",
      "total_reb_lost", "total_minutes_lost", "games_with_this_config">>

\* round(float(x), 1) of a value in thousandths: the nearest tenth, ties to even
round1(x) ==
    LET q == x \div 100
        r == x % 100
    IN  IF r < 50 THEN 100 * q
        ELSE IF r > 50 THEN 100 * (q + 1)
        ELSE IF q % 2 = 0 THEN 100 * q ELSE 100 * (q + 1)

(***************************************************************************)
(* predict.py: the dataset and the rows of a player                        *)
(***************************************************************************)
\* `date` is None
NoDate == 0

RowsWhere(df, column, value) == {i \in 1..Len(df) : df[i][column] = value}

\* sort_values("game_date").iloc[-1] over the rows I of df
LatestOf(df, I) == CHOOSE i \in I : \A j \in I : df[j].game_date <= df[i].game_date

\* DataFrame.iloc[-1]: the last row in file order
LastInFile(I) == CHOOSE i \in I : \A j \in I : j <= i

NotFound == [ok |-> FALSE, err |-> "ValueError", i |-> 0]

\* a lookup that falls back to the player's latest row when no row is dated
\* before the date
_get_player_row_or_latest(df, player_id, date) ==
    LET player_df == RowsWhere(df, "player_id", player_id)
    IN  IF player_df = {} THEN NotFound
        ELSE [ok |-> TRUE, err |-> "", i |-> LatestOf(df, player_df)]

_get_player_row(df, player_id, date) ==
    LET player_df == RowsWhere(df, "player_id", player_id)
    IN  IF player_df = {} THEN NotFound
        ELSE LET most_recent_team == df[LatestOf(df, player_df)].team_abbr
                 team_rows == {i \in player_df : df[i].team_abbr = most_recent_team}
                 dated == IF date # NoDate
                          THEN {i \in team_rows : df[i].game_date < date}
                          ELSE team_rows
             IN  IF dated = {} THEN NotFound
                 ELSE [ok |-> TRUE, err |-> "", i |-> LatestOf(df, dated)]

(***************************************************************************)
(* predict.py: _lookup_config_experience and _compute_injury_context       *)
(***************************************************************************)
\* lines 445-450: the identity the lookup computes for a non-empty list
ServingConfigHash(absent_player_ids) == md5_12(sorted(absent_player_ids))

_lookup_config_experience(df, team_abbr, absent_player_ids) ==
    LET sorted_absent == sorted(absent_player_ids)
        config_hash == ServingConfigHash(absent_player_ids)
        matching == {i \in 1..Len(df) : /\ df[i].team_abbr = team_abbr
                                        /\ df[i].injury_config_hash = config_hash}
    IN  IF sorted_absent = <<>> THEN 0
        ELSE IF matching = {} THEN 0
        ELSE SetMax({df[i].games_with_this_config : i \in matching})

\* a context for no absences that claims one earlier game
StaleContext ==
    [n_starters_out |-> 0, starter_1_out |-> 0, starter_2_out |-> 0, starter_3_out |-> 0,
     starter_4_out |-> 0, starter_5_out |-> 0, ball_handler_out |-> 0,
     primary_scorer_out |-> 0, primary_rebounder_out |-> 0, primary_defender_out |-> 0,
     sixth_man_out |-> 0, n_rotation_players_out |-> 0, total_pts_lost |-> 0,
     total_ast_lost |-> 0, total_reb_lost |-> 0, total_minutes_lost |-> 0,
     games_with_this_config |-> 1]

ZeroContext ==
    [n_starters_out |-> 0, starter_1_out |-> 0, starter_2_out |-> 0, starter_3_out |-> 0,
     starter_4_out |-> 0, starter_5_out |-> 0, ball_handler_out |-> 0,
     primary_scorer_out |-> 0, primary_rebounder_out |-> 0, primary_defender_out |-> 0,
     sixth_man_out |-> 0, n_rotation_players_out |-> 0, total_pts_lost |-> 0,
     total_ast_lost |-> 0, total_reb_lost |-> 0, total_minutes_lost |-> 0,
     games_with_this_config |-> 0]

\* lines 289-303: the rows of the players currently on the team, for that
\* team, before the date
TeamRows(df, team_abbr, date) ==
    LET current_player_ids == {df[i].player_id : i \in RowsWhere(df, "current_team", team_abbr)}
        team_df == {i \in 1..Len(df) : /\ df[i].player_id \in current_player_ids
                                       /\ df[i].team_abbr = team_abbr}
    IN  IF date # NoDate THEN {i \in team_df : df[i].game_date < date} ELSE team_df

\* lines 311-312: the rows of the season of the last row in file order
SeasonRows(df, team_df) ==
    LET latest_season == df[LastInFile(team_df)].season
    IN  {i \in team_df : df[i].season = latest_season}

\* lines 315-327: one entry per player, from the player's last row of the
\* season, in player-id order
PlayerStats(df, season_df) ==
    LET pids == sorted(SetToSeq({df[i].player_id : i \in season_df}))
    IN  [k \in 1..Len(pids) |->
            LET last_row == df[LatestOf(df, {i \in season_df : df[i].player_id = pids[k]})]
            IN  [player_id |-> pids[k],
                 avg_pts |-> last_row.season_avg_pts,
                 avg_ast |-> last_row.season_avg_ast,
                 avg_reb |-> last_row.season_avg_reb,
                 avg_stl |-> last_row.season_avg_stl,
                 avg_blk |-> last_row.season_avg_blk,
                 avg_minutes |-> last_row.season_avg_minutes,
                 games_played |-> last_row.games_played_season]]

\* lines 332-342: the qualified pool (everyone when nobody qualifies), by
\* avg_minutes descending
QualifiedPool(stats_df, stable) ==
    LET q == SelectSeq(stats_df, LAMBDA r : r.games_played >= MIN_GAMES_FOR_ROLE)
        pool == IF q = <<>> THEN stats_df ELSE q
        order == SortDescIdx([i \in 1..Len(pool) |-> pool[i].avg_minutes], stable)
    IN  [k \in 1..Len(pool) |-> pool[order[k]]]

head(q, n) == [k \in 1..(IF Len(q) < n THEN Len(q) ELSE n) |-> q[k]]

\* lines 344-435, for a non-empty list of player statistics
ContextFromStats(stats_df, absent_player_ids, config_experience, stable, stable2) ==
    LET absent_set == Range(absent_player_ids)
        qualified == QualifiedPool(stats_df, stable)
        starters == IF Len(qualified) < 5 THEN qualified ELSE head(qualified, 5)
        slot_ids == [i \in 1..5 |-> IF i <= Len(starters) THEN starters[i].player_id ELSE -1]
        S == 1..Len(starters)
        role_out(key(_)) ==
            IF S = {} THEN 0
            ELSE Flag(starters[idxmax([j \in S |-> key(starters[j])], S)].player_id \in absent_set)
        non_starters == SelectSeq(qualified, LAMBDA r : r.player_id \notin Range(slot_ids))
        ns_order == SortDescIdx([i \in 1..Len(non_starters) |-> non_starters[i].avg_minutes], stable2)
        rotation_ids == {r.player_id : r \in Range(head(qualified, 8))}
        out == {k \in 1..Len(qualified) : qualified[k].player_id \in absent_set}
    IN  [n_starters_out |-> Cardinality({i \in 1..5 : slot_ids[i] \in absent_set}),
         starter_1_out |-> Flag(slot_ids[1] \in absent_set),
         starter_2_out |-> Flag(slot_ids[2] \in absent_set),
         starter_3_out |-> Flag(slot_ids[3] \in absent_set),
         starter_4_out |-> Flag(slot_ids[4] \in absent_set),
         starter_5_out |-> Flag(slot_ids[5] \in absent_set),
         ball_handler_out |-> role_out(AvgAst),
         primary_scorer_out |-> role_out(AvgPts),
         primary_rebounder_out |-> role_out(AvgReb),
         primary_defender_out |-> role_out(AvgStlBlk),
         sixth_man_out |->
             IF non_starters = <<>> THEN 0
             ELSE Flag(non_starters[ns_order[1]].player_id \in absent_set),
         n_rotation_players_out |-> Cardinality(absent_set \cap rotation_ids),
         total_pts_lost |-> round2(SumOver(out, [k \in out |-> qualified[k].avg_pts])),
         total_ast_lost |-> round2(SumOver(out, [k \in out |-> qualified[k].avg_ast])),
         total_reb_lost |-> round2(SumOver(out, [k \in out |-> qualified[k].avg_reb])),
         total_minutes_lost |-> round2(SumOver(out, [k \in out |-> qualified[k].avg_minutes])),
         games_with_this_config |-> config_experience]

_compute_injury_context(df, team_abbr, absent_player_ids, date, stable, stable2) ==
    LET team_df == TeamRows(df, team_abbr, date)
    IN  IF absent_player_ids = <<>> THEN ZeroContext
        ELSE IF team_df = {} THEN ZeroContext
        ELSE ContextFromStats(PlayerStats(df, SeasonRows(df, team_df)), absent_player_ids,
                              _lookup_config_experience(df, team_abbr, absent_player_ids),
                              stable, stable2)

(***************************************************************************)
(* predict.py: rows, models and the public functions                       *)
(***************************************************************************)
\* Series.to_dict() of a dataset row: the columns the feature lists can name
RowToDict(row) ==
    [player_id |-> Num(row.player_id),
     position |-> Str(row.position),
     home_away |-> Str(row.home_away),
     games_played_season |-> Num(row.games_played_season),
     season_avg_pts |-> Num(row.season_avg_pts),
     season_avg_ast |-> Num(row.season_avg_ast),
     season_avg_reb |-> Num(row.season_avg_reb),
     season_avg_stl |-> Num(row.season_avg_stl),
     season_avg_blk |-> Num(row.season_avg_blk),
     season_avg_minutes |-> Num(row.season_avg_minutes),
     season_avg_fg_pct |-> Num(row.season_avg_fg_pct),
     season_avg_ft_pct |-> Num(row.season_avg_ft_pct),
     vs_opp_avg_pts |-> row.vs_opp_avg_pts,
     games_with_this_config |-> Num(row.games_with_this_config)]

ContextToDict(ctx) == [name \in DOMAIN ctx |-> Num(ctx[name])]

\* lines 196-197: every injury feature set to 0
ZeroInjuryFeatures == [name \in Range(INJURY_FEATURES) |-> Num(0)]

HOME == <<"H", "O", "M", "E">>
AWAY == <<"A", "W", "A", "Y">>

\* `opponent_team` is empty
NoOpponent == ""

\* lines 162-188: the opponent override; a pair (row_data, unavailable)
OpponentOverride(df, row_data, team_abbr, player_id, opponent_team, date) ==
    LET player_df == {i \in 1..Len(df) : df[i].player_id = player_id /\ df[i].team_abbr = team_abbr}
        vs == {i \in player_df : df[i].opponent = opponent_team}
        opp_df == IF date # NoDate THEN {i \in vs : df[i].game_date < date} ELSE vs
    IN  IF opponent_team = NoOpponent THEN [row_data |-> row_data, unavailable |-> FALSE]
        ELSE IF opp_df # {}
        THEN LET latest_opp == df[LatestOf(df, opp_df)]
             IN  [row_data |->
                     IF notna(latest_opp.vs_opp_avg_pts)
                     THEN [row_data EXCEPT !.vs_opp_avg_pts = latest_opp.vs_opp_avg_pts]
                     ELSE row_data,
                  unavailable |-> FALSE]
        ELSE [row_data |-> row_data, unavailable |-> TRUE]

\* `injury_context` is a context record, or NoContext for None
NoContext == <<>>

_build_row_data(df, player_id, opponent_team, home_or_away, date, injury_context) ==
    LET got == _get_player_row(df, player_id, date)
    IN  IF ~got.ok THEN [ok |-> FALSE, err |-> got.err, row_data |-> <<>>, unavailable |-> FALSE]
        ELSE LET row == df[got.i]
                 with_home == [RowToDict(row) EXCEPT !.home_away = Str(upper(home_or_away))]
                 over == OpponentOverride(df, with_home, row.team_abbr, player_id,
                                          opponent_team, date)
                 merged == IF injury_context # NoContext
                           THEN ContextToDict(injury_context) @@ over.row_data
                           ELSE ZeroInjuryFeatures @@ over.row_data
             IN  [ok |-> TRUE, err |-> "", row_data |-> merged, unavailable |-> over.unavailable]

\* the persisted feature-name lists: a few of the 37 baseline names, and for
\* the ripple models the baseline names followed by the 17 injury names
\* (formulation A) or the injury names alone (formulation B)
BaselineFeatureList ==
    <<"season_avg_pts", "vs_opp_avg_pts", "games_played_season", "is_home", "pos_G">>

RippleFeatureList(approach) ==
    IF approach = "A" THEN BaselineFeatureList \o INJURY_FEATURES ELSE INJURY_FEATURES

StatIndex(stat) == CHOOSE k \in 1..Len(STAT_NAMES) : STAT_NAMES[k] = stat

RECURSIVE WeightedSum(_, _, _)
WeightedSum(features, k, w) ==
    IF k = 0 THEN 0
    ELSE WeightedSum(features, k - 1, w)
         + (IF features[k].t = "num" THEN 100 * (w + k) * features[k].n ELSE 0)

\* model.predict(features): a fitted regressor is a fixed function of the
\* feature vector; this one depends on every feature, on the statistic and
\* on the model type
ModelPredict(model_type, stat, features) ==
    (IF model_type = "baseline" THEN 1000 ELSE 2000) * StatIndex(stat)
    + WeightedSum(features, Len(features), StatIndex(stat))

stat_to_avg(stat) ==
    CASE stat = "pts" -> "season_avg_pts" [] stat = "ast" -> "season_avg_ast"
      [] stat = "reb" -> "season_avg_reb" [] stat = "stl" -> "season_avg_stl"
      [] stat = "blk" -> "season_avg_blk" [] stat = "fg_pct" -> "season_avg_fg_pct"
      [] stat = "ft_pct" -> "season_avg_ft_pct" [] stat = "minutes" -> "season_avg_minutes"

\* a delta model whose season average is never added back
NoSeasonAvg(row_data, avg_col) == 0

\* `row_data.get(avg_col, 0) or 0` of a numeric column
SeasonAvgOrZero(row_data, avg_col) ==
    IF Has(row_data, avg_col) /\ row_data[avg_col].t = "num" THEN row_data[avg_col].n ELSE 0

_predict_stats(row_data, model_type, chosen_approach) ==
    LET feature_list == IF model_type = "baseline" THEN BaselineFeatureList
                        ELSE RippleFeatureList(chosen_approach)
        features == build_feature_vector(row_data, feature_list)
        is_delta_model == model_type = "ripple" /\ chosen_approach = "B"
    IN  [stat \in Range(STAT_NAMES) |->
            LET pred == ModelPredict(model_type, stat, features)
            IN  IF is_delta_model
                THEN SeasonAvgOrZero(row_data, stat_to_avg(stat)) + pred
                ELSE pred]

\* serialize_prediction on a dict of numpy floats
SerializeStats(preds) == [stat \in DOMAIN preds |-> round1(preds[stat])]

\* serialize_prediction on the injury context: the counts are Python ints
\* and stay, the talent-loss totals are numpy floats and are rounded again
SerializeContext(ctx) ==
    [ctx EXCEPT !.total_pts_lost = round1(@), !.total_ast_lost = round1(@),
                !.total_reb_lost = round1(@), !.total_minutes_lost = round1(@)]

NoPredictions == [stat \in Range(STAT_NAMES) |-> 0]

Failure(e) ==
    [ok |-> FALSE, err |-> e, predictions |-> NoPredictions,
     injury_context |-> ZeroContext, matchup_unavailable |-> FALSE,
     player_predictions |-> <<>>, active_ids |-> <<>>, team_abbr |-> ""]

predict_baseline(df, player_id, opponent_team, home_or_away, date) ==
    LET built == _build_row_data(df, player_id, opponent_team, home_or_away, date, NoContext)
    IN  IF ~built.ok THEN Failure(built.err)
        ELSE [Failure("") EXCEPT
                !.ok = TRUE,
                !.predictions = SerializeStats(_predict_stats(built.row_data, "baseline", "A")),
                !.matchup_unavailable = built.unavailable]

predict_with_injuries(df, chosen_approach, player_id, opponent_team, home_or_away, date, absent_player_ids, stable, stable2) ==
    LET got == _get_player_row(df, player_id, date)
    IN  IF ~got.ok THEN Failure(got.err)
        ELSE LET team_abbr == df[got.i].team_abbr
                 injury_context == _compute_injury_context(df, team_abbr, absent_player_ids,
                                                           date, stable, stable2)
                 built == _build_row_data(df, player_id, opponent_team, home_or_away, date,
                                          injury_context)
             IN  [Failure("") EXCEPT
                    !.ok = TRUE,
                    !.team_abbr = team_abbr,
                    !.predictions = SerializeStats(
                        _predict_stats(built.row_data, "ripple", chosen_approach)),
                    !.injury_context = SerializeContext(injury_context),
                    !.matchup_unavailable = built.unavailable]

\* a loop body without the except clause's skip: a player whose row is not
\* found is listed all the same
PlayerPredictionUnguarded(df, chosen_approach, pid, opponent_team, home_or_away, date, injury_context) ==
    LET baseline_row == _build_row_data(df, pid, opponent_team, home_or_away, date, NoContext)
        injury_row == _build_row_data(df, pid, opponent_team, home_or_away, date, injury_context)
        baseline_preds == _predict_stats(baseline_row.row_data, "ripple", chosen_approach)
        injury_preds == _predict_stats(injury_row.row_data, "ripple", chosen_approach)
    IN  IF ~baseline_row.ok
        THEN << [player_id |-> pid, row_team |-> "", baseline |-> <<>>,
                 with_injuries |-> <<>>, ripple_effect |-> <<>>] >>
        ELSE << [player_id |-> pid,
                 row_team |-> df[_get_player_row(df, pid, date).i].team_abbr,
                 baseline |-> SerializeStats(baseline_preds),
                 with_injuries |-> SerializeStats(injury_preds),
                 ripple_effect |-> SerializeStats(
                     [stat \in Range(STAT_NAMES) |-> injury_preds[stat] - baseline_preds[stat]])] >>

\* lines 609-638: the entry of one active player, or a skip
PlayerPrediction(df, chosen_approach, pid, opponent_team, home_or_away, date, injury_context) ==
    LET baseline_row == _build_row_data(df, pid, opponent_team, home_or_away, date, NoContext)
        injury_row == _build_row_data(df, pid, opponent_team, home_or_away, date, injury_context)
        baseline_preds == _predict_stats(baseline_row.row_data, "ripple", chosen_approach)
        injury_preds == _predict_stats(injury_row.row_data, "ripple", chosen_approach)
    IN  IF ~baseline_row.ok THEN <<>>
        ELSE << [player_id |-> pid,
                 row_team |-> df[_get_player_row(df, pid, date).i].team_abbr,
                 baseline |-> SerializeStats(baseline_preds),
                 with_injuries |-> SerializeStats(injury_preds),
                 ripple_effect |-> SerializeStats(
                     [stat \in Range(STAT_NAMES) |-> injury_preds[stat] - baseline_preds[stat]])] >>

RECURSIVE Flatten(_)
Flatten(qq) == IF qq = <<>> THEN <<>> ELSE Head(qq) \o Flatten(Tail(qq))

\* df.loc[I, "player_id"].unique(): the distinct ids in order of first
\* appearance
unique_player_ids(df, I) ==
    LET firsts == {i \in I : \A j \in I : j < i => df[j].player_id # df[i].player_id}
        rows == Pick(df, firsts)
    IN  [k \in 1..Len(rows) |-> rows[k].player_id]

get_ripple_effect(df, chosen_approach, team, absent_player_ids, opponent_team, home_or_away, date, stable, stable2) ==
    LET absent_set == Range(absent_player_ids)
        injury_context == _compute_injury_context(df, team, absent_player_ids, date,
                                                  stable, stable2)
        team_df == TeamRows(df, team, date)
    IN  IF team_df = {} THEN Failure("ValueError")
        ELSE LET season_df == SeasonRows(df, team_df)
                 player_ids == unique_player_ids(df, season_df)
                 active_ids == SelectSeq(player_ids, LAMBDA pid : pid \notin absent_set)
             IN  [Failure("") EXCEPT
                    !.ok = TRUE,
                    !.team_abbr = team,
                    !.active_ids = active_ids,
                    !.injury_context = SerializeContext(injury_context),
                    !.player_predictions = Flatten(
                        [k \in 1..Len(active_ids) |->
                            PlayerPrediction(df, chosen_approach, active_ids[k], opponent_team,
                                             home_or_away, date, injury_context)])]

(***************************************************************************)
(* Inputs of the feature builder specification                             *)
(***************************************************************************)
MaxRows == 2
MaxFeat == 2

\* rows: missing keys, NaN cells, mixed-case and multi-position strings, a
\* numeric position, numeric strings, strings that are no number, and a row
\* that carries its own pos_G column
Row(position, home_away, age, experience, pos_G) ==
    [position |-> position, home_away |-> home_away, age |-> age,
     experience |-> experience, pos_G |-> pos_G]

RowPool ==
    { Row(Absent, Absent, Absent, Absent, Absent),
      Row(Str(<<"g", "-", "f">>), Str(<<"h", "o", "m", "e">>), Num(3), Absent, Absent),
      Row(NaN, NaN, NaN, Absent, Absent),
      Row(Str(<<"C">>), Str(<<"A", "W", "A", "Y">>), Str(<<"2", "1">>), Absent, Absent),
      Row(Str(<<"G">>), Absent, Str(<<"a", "b">>), Absent, Absent),
      Row(Absent, Str(<<"H", "O", "M", "E">>), Num(0), Absent, Num(7)),
      Row(Num(5), Str(<<"h", "o", "m", "e", "y">>), Absent, Absent, Absent),
      Row(Absent, Absent, Str(<<>>), Num(4), Absent) }

FeatureNames == {"pos_G", "pos_C", "is_home", "age", "experience", "position", "minutes_trend"}

\* the state of a pipeline that is not part of the specification at hand
FBIdle ==
    /\ fbTable = <<>>
    /\ fbFeatures = <<>>
    /\ fbVecs = <<>>
    /\ fbMat = [done |-> TRUE, ok |-> TRUE, m |-> <<>>]

TrainIdle ==
    /\ trPc = "idle"
    /\ player_avgs = <<>>
    /\ trGames = <<>>
    /\ roles = <<>>
    /\ role_lookup = <<>>
    /\ game_team_combos = <<>>
    /\ trIdx = 0
    /\ config_counter = <<>>
    /\ injury_features_records = <<>>

NoCall ==
    [fn |-> "none", player_id |-> 0, team |-> "", absent_player_ids |-> <<>>,
     opponent_team |-> "", home_or_away |-> <<>>, date |-> 0]

\* get_ripple_metadata's value when there is no ripple_metadata.json
DefaultMetadata == [chosen_approach |-> "A", median_ripple_sensitivity |-> 0]

ServeIdle ==
    /\ data = <<>>
    /\ ripple_metadata = DefaultMetadata
    /\ svCall = NoCall
    /\ svOut = Failure("")

\* the artifact files of the ripple trainer
RippleFiles == Range(STAT_NAMES) \cup {"features", "metadata"}

NoRippleFiles ==
    /\ ripple_features = <<>>
    /\ ripple_model_files = [stat \in Range(STAT_NAMES) |-> ""]
    /\ file_run = [f \in RippleFiles |-> 0]

RippleTrainerIdle ==
    /\ rtPc = "idle"
    /\ injury_test_empty = TRUE
    /\ mean_ripples = <<>>
    /\ chosen = ""
    /\ median_ripple = 0
    /\ rtIdx = 0
    /\ run = 0
    /\ NoRippleFiles

NumThreads == 2
MaxCalls == 2
Lifespan == 0
Threads == 0..NumThreads

IdleThread ==
    [pc |-> "idle", fn |-> "none", kind |-> "none", k |-> 0, models |-> 0, pass |-> 0,
     calls |-> 0, result |-> "none", entries |-> 0]

ModelStoreIdle ==
    /\ missing = {}
    /\ preload = FALSE
    /\ heap = <<>>
    /\ _baseline_models = 0
    /\ _ripple_models = 0
    /\ _baseline_features = FALSE
    /\ _ripple_features = FALSE
    /\ th = [t \in Threads |-> IdleThread]
    /\ returned = {}

NoRowData == [ok |-> FALSE, err |-> "", row_data |-> <<>>, unavailable |-> FALSE]

PlayerFeaturesIdle ==
    /\ game_logs = <<>>
    /\ features_df = <<>>
    /\ changed_game = 0
    /\ changed_df = <<>>
    /\ scenario_row = NoRowData

\* the attributes of a new ModelStore (None), lines 40-46
NoneModels == [stat \in {"pts", "ast", "reb", "stl", "blk", "fg_pct", "ft_pct", "minutes"} |->
                  [approach |-> "None", run |-> -1]]
NoneFeatures == [list |-> <<>>, run |-> -1]
NoneMetadata == [chosen_approach |-> "None", run |-> -1]
NothingUsed == [models |-> NoneModels, features |-> NoneFeatures, metadata |-> NoneMetadata]

RetrainServingIdle ==
    /\ rsPc = "idle"
    /\ rsIdx = 0
    /\ store_ripple_models = NoneModels
    /\ store_ripple_features = NoneFeatures
    /\ store_ripple_metadata = NoneMetadata
    /\ used = NothingUsed

NumReaders == 2
Readers == 1..NumReaders
IdleReader == [pc |-> "idle", method |-> "none", seen |-> <<>>, requests |-> 0]

DataStoreIdle ==
    /\ _processed_df = 0
    /\ _rosters_df = 0
    /\ _absences_df = 0
    /\ _schedule_df = 0
    /\ ldPc = "idle"
    /\ loads = 0
    /\ rd = [r \in Readers |-> IdleReader]

NumAdminThreads == 2
AdminThreads == 1..NumAdminThreads
IdleAdmin == [pc |-> "idle", response |-> 0, busy_at_guard |-> FALSE, requests |-> 0]
IdleJob == [pc |-> "idle", runs |-> 0]

RefreshIdle ==
    /\ _refresh_in_progress = FALSE
    /\ adm = [t \in AdminThreads |-> IdleAdmin]
    /\ job = IdleJob

NumChatThreads == 2
ChatThreads == 1..NumChatThreads
IdleChat == [pc |-> "idle", row |-> 0, question_count |-> 0, response |-> 0, requests |-> 0]

ChatIdle ==
    /\ chat_usage = <<>>
    /\ ch = [t \in ChatThreads |-> IdleChat]
    /\ answered = 0

NoFile == [exists |-> FALSE, rows |-> {}]
NoFrame == [empty |-> TRUE, rows |-> {}]
Stopped ==
    [pc |-> "stopped", run |-> 0, completed_seasons |-> {}, all_dfs |-> {}, idx |-> 0,
     game_logs |-> NoFrame, short |-> FALSE]

CollectIdle ==
    /\ checkpoint_file = {}
    /\ output_game_logs = NoFile
    /\ cl = Stopped

ZIdle ==
    /\ DataStoreIdle
    /\ RefreshIdle
    /\ ChatIdle
    /\ CollectIdle

YIdle ==
    /\ RetrainServingIdle
    /\ ZIdle

XIdle ==
    /\ RippleTrainerIdle
    /\ ModelStoreIdle
    /\ PlayerFeaturesIdle
    /\ YIdle

NoVec == [done |-> FALSE, v |-> <<>>]
NoMat == [done |-> FALSE, ok |-> FALSE, m |-> <<>>]

FBInit ==
    /\ XIdle
    /\ fbTable \in SeqsUpTo(RowPool, MaxRows)
    /\ fbFeatures \in SeqsUpTo(FeatureNames, MaxFeat)
    /\ fbVecs = [r \in 1..Len(fbTable) |-> NoVec]
    /\ fbMat = NoMat
    /\ TrainIdle
    /\ ServeIdle

\* one single-row call
CallBuildFeatureVector(r) ==
    /\ ~fbVecs[r].done
    /\ fbVecs' = [fbVecs EXCEPT ![r] =
                    [done |-> TRUE, v |-> build_feature_vector(fbTable[r], fbFeatures)]]
    /\ UNCHANGED <<fbTable, fbFeatures, fbMat, trVars, svVars, xVars>>

\* the batch call
CallBuildFeatureMatrix ==
    /\ ~fbMat.done
    /\ fbMat' = [done |-> TRUE] @@ build_feature_matrix(fbTable, fbFeatures)
    /\ UNCHANGED <<fbTable, fbFeatures, fbVecs, trVars, svVars, xVars>>

FBNext ==
    \/ \E r \in 1..Len(fbTable) : CallBuildFeatureVector(r)
    \/ CallBuildFeatureMatrix

SpecFB == FBInit /\ [][FBNext]_vars

(***************************************************************************)
(* Inputs of the training specification                                    *)
(***************************************************************************)
NumPlayers == 6
MaxGames == 3

Players == 1..NumPlayers

\* season averages a player can have: a regular with 40 games, a reserve with
\* exactly 20 games who ties the regular on steals+blocks, and a player one
\* game short of qualifying whose averages are the highest
ProfileSeq ==
    << [games_played |-> 40, avg_minutes |-> 30500, avg_pts |-> 20125, avg_ast |-> 3000,
        avg_reb |-> 5000, avg_stl |-> 1000, avg_blk |-> 500],
       [games_played |-> 20, avg_minutes |-> 18125, avg_pts |-> 8150, avg_ast |-> 6150,
        avg_reb |-> 7350, avg_stl |-> 500, avg_blk |-> 1000],
       [games_played |-> 19, avg_minutes |-> 35000, avg_pts |-> 25000, avg_ast |-> 9000,
        avg_reb |-> 9000, avg_stl |-> 2000, avg_blk |-> 1000] >>

Profiles == Range(ProfileSeq)

AvgRow(pid, team, season, prof) ==
    [player_id |-> pid, team_id |-> team, season |-> season,
     avg_pts |-> prof.avg_pts, avg_ast |-> prof.avg_ast, avg_reb |-> prof.avg_reb,
     avg_stl |-> prof.avg_stl, avg_blk |-> prof.avg_blk,
     avg_minutes |-> prof.avg_minutes, games_played |-> prof.games_played]

\* lines 170-182: one row per (player, team, season), in key order
Roster(prof) == [p \in Players |-> AvgRow(p, "X", 1, prof[p])]

\* a roster of two teams used when the games vary

TwoTeamRoster ==
    [p \in 1..(NumPlayers + 1) |->
        AvgRow(p, IF p \in Players THEN "X" ELSE "Y", 1, ProfileSeq[(p % 3) + 1])]

SmallSubsets(S) == {A \in SUBSET S : Cardinality(A) <= 2}

DayOrders(n) == {f \in [1..n -> 1..n] : \A i, j \in 1..n : i # j => f[i] # f[j]}

\* game logs in file order: the game of position g was played on day date[g]
GameList(n, team, date, absent) ==
    [g \in 1..n |-> [game_id |-> g, team_id |-> team[g], season |-> 1,
                     game_date |-> date[g], absent |-> absent[g]]]

TrainInit ==
    /\ XIdle
    /\ FBIdle
    /\ ServeIdle
    /\ trPc = "start"
    /\ \/ /\ \E prof \in [Players -> Profiles] : player_avgs = Roster(prof)
          /\ \E A \in SmallSubsets(Players \cup {NumPlayers + 1}) :
                trGames = GameList(1, <<"X">>, <<1>>, <<A>>)
       \/ /\ player_avgs = TwoTeamRoster
          /\ \E n \in 0..MaxGames :
             \E team \in [1..n -> {"X", "Y"}], date \in DayOrders(n),
                absent \in [1..n -> {{}, {1}, {1, 2}}] :
                trGames = GameList(n, team, date, absent)
    /\ roles = <<>>
    /\ role_lookup = <<>>
    /\ game_team_combos = <<>>
    /\ trIdx = 0
    /\ config_counter = <<>>
    /\ injury_features_records = <<>>

\* main(): Phase 2
DetectRoles ==
    /\ trPc = "start"
    /\ roles' = detect_player_roles(player_avgs)
    /\ trPc' = "roles"
    /\ UNCHANGED <<player_avgs, trGames, role_lookup, game_team_combos, trIdx,
                   config_counter, injury_features_records, fbVars, svVars, xVars>>

TeamSeasons(rs) == {<<rs[i].team_id, rs[i].season>> : i \in 1..Len(rs)}

\* build_injury_context_features up to the loop: the lookups, the empty
\* counter and the combinations sorted by game_date
BuildLookups ==
    /\ trPc = "roles"
    /\ \E stable \in BOOLEAN :
          role_lookup' = [key \in TeamSeasons(roles) |-> RoleLookup(roles, key[1], key[2], stable)]
    /\ game_team_combos' =
          [k \in 1..Len(trGames) |->
              trGames[CHOOSE g \in 1..Len(trGames) : trGames[g].game_date = k]]
    /\ config_counter' = <<>>
    /\ injury_features_records' = <<>>
    /\ trIdx' = 0
    /\ trPc' = "loop"
    /\ UNCHANGED <<player_avgs, trGames, roles, fbVars, svVars, xVars>>

\* one iteration of the loop over the sorted combinations
ProcessCombo ==
    /\ trPc = "loop"
    /\ trIdx < Len(game_team_combos)
    /\ LET combo == game_team_combos[trIdx + 1]
           key == <<combo.team_id, combo.season>>
           team_roles == IF key \in DOMAIN role_lookup THEN role_lookup[key] ELSE <<>>
           record == InjuryRecord(combo.game_id, combo.team_id, team_roles,
                                  combo.absent, config_counter)
       IN  /\ injury_features_records' = Append(injury_features_records, record)
           /\ config_counter' = Advance(config_counter, record)
    /\ trIdx' = trIdx + 1
    /\ UNCHANGED <<trPc, player_avgs, trGames, roles, role_lookup, game_team_combos, fbVars, svVars, xVars>>

TrainNext ==
    \/ DetectRoles
    \/ BuildLookups
    \/ ProcessCombo

SpecTrain == TrainInit /\ [][TrainNext]_vars

(***************************************************************************)
(* process_data.py: main(), from the collected game logs to the dataset    *)
(* the prediction engine loads                                             *)
(***************************************************************************)
\* the first season is long enough for a player who misses three games to
\* qualify for a role, the second one has just begun
SeasonLen == MIN_GAMES_FOR_ROLE + 4
Season2Games == 2
LastDay == SeasonLen + Season2Games
SeasonOf(d) == IF d <= SeasonLen THEN 1 ELSE 2

\* what a player did on a day: played for a team, was on the team's roster
\* without playing (a row of player_absences.csv), or neither
Played(team) == [kind |-> "played", team |-> team]
Out(team) == [kind |-> "out", team |-> team]
NoTeam == [kind |-> "none", team |-> ""]

Stint(st, from, to) == [st |-> st, from |-> from, to |-> to]

\* the status of a career (a list of stints, later ones overriding) on day d
StatusOn(c, d) ==
    LET cover == {k \in 1..Len(c) : c[k].from <= d /\ d <= c[k].to}
    IN  IF cover = {} THEN NoTeam ELSE c[SetMax(cover)].st

GameDays(c) == {d \in 1..LastDay : StatusOn(c, d).kind = "played"}

OpponentOn(team, d) == IF (team = "X") = (d % 2 = 1) THEN "Z" ELSE "W"
HomeAwayOn(d) == IF d % 3 = 0 THEN AWAY ELSE HOME
GameId(team, d) == 2 * d + (IF team = "X" THEN 0 ELSE 1)

\* x.expanding().mean().shift(1): the mean over the earlier games S, NaN
\* when there is none
ExpandingMeanShift1(S, value) ==
    IF S = {} THEN NaN ELSE Num(SumOver(S, [e \in S |-> value]) \div Cardinality(S))

Teams == <<"X", "Y">>

\* detect_player_roles, lines 170-182: the averages per (player, team,
\* season) of the game logs, in key order
PlayerAvgs(career, prof) ==
    LET n == Len(career)
        days(p, team, season) ==
            {d \in GameDays(career[p]) : StatusOn(career[p], d).team = team /\ SeasonOf(d) = season}
        entry(p, team, season) ==
            IF days(p, team, season) = {} THEN <<>>
            ELSE << AvgRow(p, team, season,
                           [prof[p] EXCEPT !.games_played = Cardinality(days(p, team, season))]) >>
    IN  Flatten([k \in 1..(4 * n) |->
            entry(((k - 1) \div 4) + 1, Teams[(((k - 1) \div 2) % 2) + 1], ((k - 1) % 2) + 1)])

\* build_injury_context_features, lines 466-467: the (game, team)
\* combinations of the game logs by date
Combos(career) ==
    LET played(team, d) == \E p \in 1..Len(career) : StatusOn(career[p], d) = Played(team)
        entry(team, d) ==
            IF played(team, d)
            THEN << [game_id |-> GameId(team, d), team_id |-> team, season |-> SeasonOf(d),
                     game_date |-> d,
                     absent |-> {p \in 1..Len(career) : StatusOn(career[p], d) = Out(team)}] >>
            ELSE <<>>
    IN  Flatten([k \in 1..(2 * LastDay) |-> entry(Teams[((k - 1) % 2) + 1], ((k - 1) \div 2) + 1)])

\* lines 471-561: the loop over the combinations from position k on
RECURSIVE RunLoop(_, _, _, _)
RunLoop(combos, k, counter, lookup) ==
    IF k > Len(combos) THEN <<>>
    ELSE LET combo == combos[k]
             key == <<combo.team_id, combo.season>>
             team_roles == IF key \in DOMAIN lookup THEN lookup[key] ELSE <<>>
             record == InjuryRecord(combo.game_id, combo.team_id, team_roles,
                                    combo.absent, counter)
         IN  <<record>> \o RunLoop(combos, k + 1, Advance(counter, record), lookup)

PositionOf(p) == IF p % 3 = 1 THEN <<"G">> ELSE IF p % 3 = 2 THEN <<"F", "-", "C">> ELSE <<"C">>

\* main(): the processed dataset of the collected careers, one row per game
\* played, in (player_id, game_date) order, the rows of a player's first
\* game of a season dropped (lines 855-863) after current_team was taken
\* from the player's latest game (lines 841-848)
Dataset(career, prof, stable) ==
    LET n == Len(career)
        rs == detect_player_roles(PlayerAvgs(career, prof))
        lookup == [key \in TeamSeasons(rs) |-> RoleLookup(rs, key[1], key[2], stable)]
        records == RunLoop(Combos(career), 1, <<>>, lookup)
        record_of(id) == records[CHOOSE k \in 1..Len(records) : records[k].game_id = id]
        rows(p) ==
            LET c == career[p]
                days == GameDays(c)
                current_team == StatusOn(c, SetMax(days)).team
                row(d) ==
                    LET team == StatusOn(c, d).team
                        prior == {e \in days : e < d /\ SeasonOf(e) = SeasonOf(d)}
                        met == {e \in days : e < d /\ OpponentOn(StatusOn(c, e).team, e)
                                                       = OpponentOn(team, d)}
                        rec == record_of(GameId(team, d))
                        avg(v) == ExpandingMeanShift1(prior, v)
                    IN  IF prior = {} THEN <<>>
                        ELSE << [player_id |-> p, team_abbr |-> team,
                                 current_team |-> current_team,
                                 game_date |-> d, season |-> SeasonOf(d),
                                 opponent |-> OpponentOn(team, d),
                                 home_away |-> HomeAwayOn(d), position |-> PositionOf(p),
                                 games_played_season |-> Cardinality(prior),
                                 season_avg_pts |-> avg(prof[p].avg_pts).n,
                                 season_avg_ast |-> avg(prof[p].avg_ast).n,
                                 season_avg_reb |-> avg(prof[p].avg_reb).n,
                                 season_avg_stl |-> avg(prof[p].avg_stl).n,
                                 season_avg_blk |-> avg(prof[p].avg_blk).n,
                                 season_avg_minutes |-> avg(prof[p].avg_minutes).n,
                                 season_avg_fg_pct |-> avg(450).n,
                                 season_avg_ft_pct |-> avg(800).n,
                                 vs_opp_avg_pts |-> ExpandingMeanShift1(met, prof[p].avg_pts),
                                 injury_config_hash |-> rec.injury_config_hash,
                                 games_with_this_config |-> rec.games_with_this_config] >>
            IN  Flatten([d \in 1..LastDay |-> IF d \in days THEN row(d) ELSE <<>>])
    IN  Flatten([p \in 1..n |-> rows(p)])

(***************************************************************************)
(* Inputs of the serving specification                                     *)
(***************************************************************************)
NumServePlayers == 4
MaxAbsent == 2

\* careers: a regular of team X; one who misses three games; one who
\* has not played in the new season; a player traded from X to Y in
\* mid-season; one traded from X to Y late in the season who is back at X
\* for the opener of the new season and out since; one who moved from Y to X between the seasons
\* and has played the opener only; a late-season reserve, who may instead
\* be a second regular of X; a roster member who never played; a regular
\* of team Y
Regular == <<Stint(Played("X"), 1, LastDay)>>
WithAbsences ==
    <<Stint(Played("X"), 1, LastDay), Stint(Out("X"), 5, 5), Stint(Out("X"), 9, 9),
      Stint(Out("X"), 15, 15)>>
Season1Only == <<Stint(Played("X"), 1, SeasonLen)>>
Traded == <<Stint(Played("X"), 1, 10), Stint(Played("Y"), 11, LastDay)>>
TradedBack ==
    <<Stint(Played("X"), 1, MIN_GAMES_FOR_ROLE + 1),
      Stint(Played("Y"), MIN_GAMES_FOR_ROLE + 2, SeasonLen),
      Stint(Played("X"), SeasonLen + 1, SeasonLen + 1), Stint(Out("X"), SeasonLen + 2, LastDay)>>
OffseasonMove ==
    <<Stint(Played("Y"), 1, SeasonLen), Stint(Played("X"), SeasonLen + 1, SeasonLen + 1),
      Stint(Out("X"), SeasonLen + 2, LastDay)>>
Bench == <<Stint(Played("X"), SeasonLen - 2, SeasonLen)>>
NeverPlayed == <<Stint(Out("X"), 1, LastDay)>>
YRegular == <<Stint(Played("Y"), 1, LastDay), Stint(Out("Y"), 5, 5)>>

CareerChoices(p) ==
    CASE p = 1 -> {WithAbsences}
      [] p = 2 -> {Regular, Season1Only}
      [] p = 3 -> {Traded, TradedBack, OffseasonMove, YRegular}
      [] p = 4 -> {Bench, NeverPlayed, Regular}
      [] OTHER -> {Bench}

\* the per-game line of a player; player 2 can equal player 1 in everything
ProfileChoices(p) ==
    CASE p = 1 -> {ProfileSeq[1]}
      [] p = 2 -> {ProfileSeq[1], ProfileSeq[2]}
      [] OTHER -> {ProfileSeq[(p % 3) + 1]}

ServePlayers == 1..NumServePlayers
AsOfDates == {NoDate, 2, 12}
\* the absent-id lists a caller passes: ids of the players, in any order and
\* with repeats, and lists holding the id -1, which the route parses from
\* the query string like any other integer (routes/predictions.py:225)
AbsentLists == SeqsUpTo(ServePlayers, MaxAbsent) \cup {<<-1>>, <<-1, 1>>}

ServeInit ==
    /\ XIdle
    /\ FBIdle
    /\ TrainIdle
    /\ \E career \in [ServePlayers -> UNION {CareerChoices(p) : p \in ServePlayers}],
          prof \in [ServePlayers -> Profiles] :
          /\ \A p \in ServePlayers : career[p] \in CareerChoices(p) /\ prof[p] \in ProfileChoices(p)
          /\ data = Dataset(career, prof, TRUE)
    \* the metadata of a completed training run: A on a median at the
    \* threshold (twice 0.3, in thousandths), B on a median of 0
    /\ ripple_metadata \in {[chosen_approach |-> "A", median_ripple_sensitivity |-> 600],
                           [chosen_approach |-> "B", median_ripple_sensitivity |-> 0]}
    /\ svCall = NoCall
    /\ svOut = Failure("")

CallPredictBaseline ==
    /\ svCall.fn = "none"
    /\ \E player_id \in ServePlayers, opponent_team \in {NoOpponent, "Z"},
          home_or_away \in {HOME, AWAY}, date \in AsOfDates :
          /\ svCall' = [NoCall EXCEPT !.fn = "predict_baseline", !.player_id = player_id,
                                      !.opponent_team = opponent_team,
                                      !.home_or_away = home_or_away, !.date = date]
          /\ svOut' = predict_baseline(data, player_id, opponent_team, home_or_away, date)
    /\ UNCHANGED <<data, ripple_metadata, fbVars, trVars, xVars>>

CallPredictWithInjuries ==
    /\ svCall.fn = "none"
    /\ \E player_id \in ServePlayers, date \in AsOfDates, absent_player_ids \in AbsentLists,
          stable \in BOOLEAN, stable2 \in BOOLEAN :
          /\ svCall' = [NoCall EXCEPT !.fn = "predict_with_injuries", !.player_id = player_id,
                                      !.opponent_team = NoOpponent, !.home_or_away = HOME,
                                      !.date = date, !.absent_player_ids = absent_player_ids]
          /\ svOut' = predict_with_injuries(data, ripple_metadata.chosen_approach, player_id,
                                            NoOpponent, HOME, date, absent_player_ids,
                                            stable, stable2)
    /\ UNCHANGED <<data, ripple_metadata, fbVars, trVars, xVars>>

CallGetRippleEffect ==
    /\ svCall.fn = "none"
    /\ \E team \in {"X", "Y"}, date \in AsOfDates, absent_player_ids \in AbsentLists,
          stable \in BOOLEAN, stable2 \in BOOLEAN :
          /\ svCall' = [NoCall EXCEPT !.fn = "get_ripple_effect", !.team = team,
                                      !.opponent_team = "Z", !.home_or_away = AWAY,
                                      !.date = date, !.absent_player_ids = absent_player_ids]
          /\ svOut' = get_ripple_effect(data, ripple_metadata.chosen_approach, team,
                                        absent_player_ids, "Z", AWAY, date, stable, stable2)
    /\ UNCHANGED <<data, ripple_metadata, fbVars, trVars, xVars>>

ServeNext ==
    \/ CallPredictBaseline
    \/ CallPredictWithInjuries
    \/ CallGetRippleEffect

SpecServe == ServeInit /\ [][ServeNext]_vars

(***************************************************************************)
(* The ripple trainer, train_and_evaluate of ripple_model.py.  Sensitivities *)
(* are in thousandths of a statistic's unit; the regressors return 64-bit  *)
(* floats, so a mean |ripple| may be any such value, the threshold itself  *)
(* included.                                                               *)
(***************************************************************************)
RIPPLE_THRESHOLD == 300

\* the mean |ripple| a statistic's model may show on the injury games
MeanRippleValues == {0, RIPPLE_THRESHOLD - 1, RIPPLE_THRESHOLD, RIPPLE_THRESHOLD + 1}

\* twice np.median(values): the middle value, or the mean of the two middle ones
Median2(values) ==
    LET s == sorted(values)
        n == Len(s)
    IN  IF n % 2 = 1 THEN 2 * s[(n + 1) \div 2] ELSE s[n \div 2] + s[n \div 2 + 1]

\* mean_ripples of train_and_evaluate: [0] when the sensitivity is empty
DecisionRipples(sensitivity) == IF sensitivity = <<>> THEN <<0>> ELSE sensitivity

use_approach_a(sensitivity) == Median2(DecisionRipples(sensitivity)) >= 2 * RIPPLE_THRESHOLD

\* config.py: the 37 baseline names and the 54 names of formulation A
BASELINE_FEATURES ==
    <<"season_avg_pts", "season_avg_ast", "season_avg_reb", "season_avg_stl",
      "season_avg_blk", "season_avg_tov", "season_avg_fg_pct", "season_avg_ft_pct",
      "season_avg_fg3_pct", "season_avg_plus_minus", "season_avg_minutes",
      "last5_avg_pts", "last5_avg_ast", "last5_avg_reb", "last5_avg_minutes",
      "last5_avg_fg_pct", "last5_avg_plus_minus",
      "last10_avg_pts", "last10_avg_ast", "last10_avg_reb", "last10_avg_minutes",
      "last10_avg_fg_pct", "last10_avg_plus_minus",
      "home_avg_pts", "away_avg_pts", "home_away_pts_diff",
      "vs_opp_avg_pts", "vs_opp_avg_reb", "vs_opp_avg_ast",
      "minutes_trend", "games_played_season", "age", "experience",
      "is_home", "pos_G", "pos_F", "pos_C">>

RIPPLE_FEATURES == BASELINE_FEATURES \o INJURY_FEATURES

\* a trainer that persists the full list whatever it chose
always_ripple_features(approach) == RIPPLE_FEATURES

\* chosen_features of train_and_evaluate
chosen_features(approach) == IF approach = "A" THEN RIPPLE_FEATURES ELSE INJURY_FEATURES

RippleTrainerInit ==
    /\ FBIdle
    /\ TrainIdle
    /\ ServeIdle
    /\ ModelStoreIdle
    /\ PlayerFeaturesIdle
    /\ YIdle
    /\ rtPc = "sensitivity"
    /\ injury_test_empty \in BOOLEAN
    /\ mean_ripples = <<>>
    /\ chosen = ""
    /\ median_ripple = 0
    /\ rtIdx = 0
    /\ run = 1
    /\ NoRippleFiles

rtFrame == <<data, svCall, svOut, fbVars, trVars, msVars, pfVars, yVars>>

\* one turn of the loop over STAT_NAMES in _evaluate_ripple_sensitivity
EvaluateStatSensitivity ==
    /\ rtPc = "sensitivity"
    /\ ~injury_test_empty
    /\ Len(mean_ripples) < Len(STAT_NAMES)
    /\ \E mean_ripple \in MeanRippleValues : mean_ripples' = Append(mean_ripples, mean_ripple)
    /\ UNCHANGED <<rtPc, injury_test_empty, ripple_features, chosen, median_ripple, rtIdx,
                   ripple_model_files, run, file_run, ripple_metadata, rtFrame>>

\* lines 319-326: the decision
ChooseFormulation ==
    /\ rtPc = "sensitivity"
    /\ injury_test_empty \/ Len(mean_ripples) = Len(STAT_NAMES)
    /\ chosen' = IF use_approach_a(mean_ripples) THEN "A" ELSE "B"
    /\ median_ripple' = Median2(DecisionRipples(mean_ripples))
    /\ rtIdx' = 0
    /\ rtPc' = "save_models"
    /\ UNCHANGED <<injury_test_empty, mean_ripples, ripple_features, ripple_model_files,
                   run, file_run, ripple_metadata, rtFrame>>

\* lines 350-353: one turn of the loop that dumps chosen_models[stat_name]
SaveRippleModel ==
    /\ rtPc = "save_models"
    /\ rtIdx < Len(STAT_NAMES)
    /\ LET stat_name == STAT_NAMES[rtIdx + 1]
       IN  /\ ripple_model_files' = [ripple_model_files EXCEPT ![stat_name] = chosen]
           /\ file_run' = [file_run EXCEPT ![stat_name] = run]
    /\ rtIdx' = rtIdx + 1
    /\ rtPc' = IF rtIdx + 1 = Len(STAT_NAMES) THEN "save_features" ELSE "save_models"
    /\ UNCHANGED <<injury_test_empty, mean_ripples, ripple_features, chosen, median_ripple,
                   run, ripple_metadata, rtFrame>>

\* lines 356-359: the feature list
SaveRippleFeatures ==
    /\ rtPc = "save_features"
    /\ ripple_features' = chosen_features(chosen)
    /\ file_run' = [file_run EXCEPT !["features"] = run]
    /\ rtPc' = "save_metadata"
    /\ UNCHANGED <<injury_test_empty, mean_ripples, chosen, median_ripple, rtIdx,
                   ripple_model_files, run, ripple_metadata, rtFrame>>

\* lines 362-370: the metadata
SaveRippleMetadata ==
    /\ rtPc = "save_metadata"
    /\ ripple_metadata' = [chosen_approach |-> chosen,
                           median_ripple_sensitivity |-> median_ripple]
    /\ file_run' = [file_run EXCEPT !["metadata"] = run]
    /\ rtPc' = "done"
    /\ UNCHANGED <<injury_test_empty, mean_ripples, ripple_features, chosen, median_ripple,
                   rtIdx, ripple_model_files, run, rtFrame>>

RippleTrainerNext ==
    \/ EvaluateStatSensitivity
    \/ ChooseFormulation
    \/ SaveRippleModel
    \/ SaveRippleFeatures
    \/ SaveRippleMetadata

SpecRippleTrainer == RippleTrainerInit /\ [][RippleTrainerNext]_vars

(***************************************************************************)
(* A serving process (predict.py's ModelStore under the API lifespan of    *)
(* main.py) beside a re-run of the ripple trainer.  The model directory    *)
(* holds the artifacts of a completed run; the trainer runs again and      *)
(* overwrites them file by file, and the serving process loads each        *)
(* artifact at its first use and keeps it.                                 *)
(***************************************************************************)
NotLoaded == [approach |-> "", run |-> 0]

\* the sensitivities the re-run has evaluated: none (no injury game in the
\* test set) or the same value for every statistic
RetrainSensitivities ==
    {<<>>} \cup {[k \in 1..Len(STAT_NAMES) |-> v] : v \in {0, RIPPLE_THRESHOLD}}

RetrainInit ==
    /\ FBIdle
    /\ TrainIdle
    /\ ModelStoreIdle
    /\ PlayerFeaturesIdle
    /\ ZIdle
    /\ data = <<>>
    /\ svCall = NoCall
    /\ svOut = Failure("")
    \* the artifacts of the first run
    /\ \E previous \in {"A", "B"} :
          /\ ripple_model_files = [stat \in Range(STAT_NAMES) |-> previous]
          /\ ripple_features = chosen_features(previous)
          /\ ripple_metadata = [chosen_approach |-> previous,
                                median_ripple_sensitivity |->
                                    IF previous = "A" THEN 2 * RIPPLE_THRESHOLD ELSE 0]
    /\ file_run = [f \in RippleFiles |-> 1]
    \* the second run, its sensitivity evaluated
    /\ run = 2
    /\ rtPc = "sensitivity"
    /\ mean_ripples \in RetrainSensitivities
    /\ injury_test_empty = (mean_ripples = <<>>)
    /\ chosen = ""
    /\ median_ripple = 0
    /\ rtIdx = 0
    \* the serving process: an API process at its lifespan, or a process
    \* that uses predict.py without preloading
    /\ rsPc \in {"lifespan", "request"}
    /\ rsIdx = 0
    /\ store_ripple_models = NoneModels
    /\ store_ripple_features = NoneFeatures
    /\ store_ripple_metadata = NoneMetadata
    /\ used = NothingUsed

rsFrame == <<fbVars, trVars, svVars, rtVars, msVars, pfVars, zVars>>

\* where the caller of get_ripple_models goes on
AfterRippleModels(pc) == IF pc \in {"lifespan", "lifespan_loading"} THEN "request" ELSE "features"

\* get_ripple_models, lines 64-65 and 70: the test for None
BeginGetRippleModels ==
    /\ rsPc \in {"lifespan", "request"}
    /\ IF store_ripple_models = NoneModels
       THEN /\ store_ripple_models' = [stat \in Range(STAT_NAMES) |-> NotLoaded]
            /\ rsIdx' = 0
            /\ rsPc' = IF rsPc = "lifespan" THEN "lifespan_loading" ELSE "request_loading"
       ELSE /\ rsPc' = AfterRippleModels(rsPc)
            /\ UNCHANGED <<store_ripple_models, rsIdx>>
    /\ UNCHANGED <<store_ripple_features, store_ripple_metadata, used, rsFrame>>

\* get_ripple_models, lines 66-69: one turn of the loading loop
LoadRippleModel ==
    /\ rsPc \in {"lifespan_loading", "request_loading"}
    /\ LET stat == STAT_NAMES[rsIdx + 1]
       IN  store_ripple_models' =
               [store_ripple_models EXCEPT ![stat] = [approach |-> ripple_model_files[stat],
                                                      run |-> file_run[stat]]]
    /\ rsIdx' = rsIdx + 1
    /\ rsPc' = IF rsIdx + 1 = Len(STAT_NAMES) THEN AfterRippleModels(rsPc) ELSE rsPc
    /\ UNCHANGED <<store_ripple_features, store_ripple_metadata, used, rsFrame>>

\* get_ripple_features, lines 80-86
GetRippleFeatures ==
    /\ rsPc = "features"
    /\ store_ripple_features' =
           IF store_ripple_features = NoneFeatures
           THEN [list |-> ripple_features, run |-> file_run["features"]]
           ELSE store_ripple_features
    /\ rsPc' = "metadata"
    /\ UNCHANGED <<rsIdx, store_ripple_models, store_ripple_metadata, used, rsFrame>>

\* get_ripple_metadata, lines 88-96
GetRippleMetadata ==
    /\ rsPc = "metadata"
    /\ store_ripple_metadata' =
           IF store_ripple_metadata = NoneMetadata
           THEN [chosen_approach |-> ripple_metadata.chosen_approach,
                 run |-> file_run["metadata"]]
           ELSE store_ripple_metadata
    /\ rsPc' = "predict"
    /\ UNCHANGED <<rsIdx, store_ripple_models, store_ripple_features, used, rsFrame>>

\* _predict_stats, lines 243-255: the loop over the statistics
PredictWithRipple ==
    /\ rsPc = "predict"
    /\ used' = [models |-> store_ripple_models, features |-> store_ripple_features,
                metadata |-> store_ripple_metadata]
    /\ rsPc' = "predicted"
    /\ UNCHANGED <<rsIdx, store_ripple_models, store_ripple_features, store_ripple_metadata,
                   rsFrame>>

RetrainNext ==
    \/ ChooseFormulation
    \/ SaveRippleModel
    \/ SaveRippleFeatures
    \/ SaveRippleMetadata
    \/ BeginGetRippleModels
    \/ LoadRippleModel
    \/ GetRippleFeatures
    \/ GetRippleMetadata
    \/ PredictWithRipple

SpecRetrain == RetrainInit /\ [][RetrainNext]_vars

(***************************************************************************)
(* The ModelStore singleton of predict.py under the threads of one process: *)
(* the API lifespan's preload (main.py) and request threads running the    *)
(* three public prediction functions for a player the dataset knows.  The  *)
(* getters take no lock; a thread may be pre-empted between any two of the *)
(* steps below.                                                            *)
(***************************************************************************)
Artifact(kind, name) == <<kind, name>>

AllStats == Range(STAT_NAMES)

\* what may be absent from the model directory
MissingChoices ==
    { {}, {Artifact("baseline", "reb")}, {Artifact("ripple", "pts")},
      {Artifact("ripple", "features")} }

PublicFunctions == {"predict_baseline", "predict_with_injuries", "get_ripple_effect"}

\* the store a public function predicts with
ModelTypeOf(fn) == IF fn \in {"predict_baseline", "preload"} THEN "baseline" ELSE "ripple"

ModelsAttr(kind) == IF kind = "baseline" THEN _baseline_models ELSE _ripple_models
FeaturesAttr(kind) == IF kind = "baseline" THEN _baseline_features ELSE _ripple_features

SetModelsAttr(kind, obj) ==
    IF kind = "baseline"
    THEN _baseline_models' = obj /\ UNCHANGED _ripple_models
    ELSE _ripple_models' = obj /\ UNCHANGED _baseline_models

SetFeaturesAttr(kind) ==
    IF kind = "baseline"
    THEN _baseline_features' = TRUE /\ UNCHANGED _ripple_features
    ELSE _ripple_features' = TRUE /\ UNCHANGED _baseline_features

\* the call of thread t ends: it raised or returned
Finish(t, result, entries) ==
    [th EXCEPT ![t] = [@ EXCEPT !.pc = "idle", !.calls = @ + 1, !.result = result,
                                !.entries = entries, !.k = 0, !.models = 0, !.pass = 0]]

ModelStoreInit ==
    /\ FBIdle
    /\ TrainIdle
    /\ ServeIdle
    /\ RippleTrainerIdle
    /\ PlayerFeaturesIdle
    /\ YIdle
    /\ missing \in MissingChoices
    /\ preload \in BOOLEAN
    /\ heap = <<>>
    /\ _baseline_models = 0
    /\ _ripple_models = 0
    /\ _baseline_features = FALSE
    /\ _ripple_features = FALSE
    /\ th = [t \in Threads |-> IdleThread]
    /\ returned = {}

msFrame == <<missing, preload, fbVars, trVars, svVars, rtVars, pfVars, yVars>>

\* lifespan(): model_store.get_baseline_models() is entered
StartPreload ==
    /\ preload
    /\ th[Lifespan].pc = "idle" /\ th[Lifespan].calls = 0
    /\ th' = [th EXCEPT ![Lifespan] = [@ EXCEPT !.pc = "check", !.fn = "preload",
                                                !.kind = "baseline"]]
    /\ UNCHANGED <<heap, _baseline_models, _ripple_models, _baseline_features,
                   _ripple_features, returned, msFrame>>

\* a request thread enters a public function; _predict_stats calls the getter
StartCall(t) ==
    /\ t # Lifespan
    /\ preload => th[Lifespan].calls = 1
    /\ th[t].pc = "idle" /\ th[t].calls < MaxCalls
    /\ \E fn \in PublicFunctions :
          th' = [th EXCEPT ![t] = [@ EXCEPT !.pc = "check", !.fn = fn, !.kind = ModelTypeOf(fn),
                                            !.pass = 1, !.result = "none", !.entries = 0]]
    /\ UNCHANGED <<heap, _baseline_models, _ripple_models, _baseline_features,
                   _ripple_features, returned, msFrame>>

\* after a getter returned the models to the caller
AfterModels(t, obj) ==
    IF th[t].fn = "preload"
    THEN IF th[t].kind = "baseline"
         THEN [th EXCEPT ![t] = [@ EXCEPT !.pc = "check", !.kind = "ripple", !.k = 0]]
         ELSE Finish(t, "ok", 0)
    ELSE [th EXCEPT ![t] = [@ EXCEPT !.pc = "features", !.models = obj, !.k = 0]]

\* get_*_models: "if self._models is None", and the return when it is not
CheckModels(t) ==
    /\ th[t].pc = "check"
    /\ LET obj == ModelsAttr(th[t].kind)
       IN  IF obj = 0
           THEN /\ th' = [th EXCEPT ![t] = [@ EXCEPT !.pc = "new"]]
                /\ UNCHANGED returned
           ELSE /\ th' = AfterModels(t, obj)
                /\ returned' = returned \cup {[obj |-> obj, keys |-> heap[obj]]}
    /\ UNCHANGED <<heap, _baseline_models, _ripple_models, _baseline_features,
                   _ripple_features, msFrame>>

\* get_*_models: "self._models = {}"
NewModels(t) ==
    /\ th[t].pc = "new"
    /\ heap' = Append(heap, {})
    /\ SetModelsAttr(th[t].kind, Len(heap) + 1)
    /\ th' = [th EXCEPT ![t] = [@ EXCEPT !.pc = "load", !.k = 1]]
    /\ UNCHANGED <<_baseline_features, _ripple_features, returned, msFrame>>

\* get_*_models: one turn of the loop over STAT_NAMES
LoadModel(t) ==
    /\ th[t].pc = "load"
    /\ LET stat == STAT_NAMES[th[t].k]
           obj == ModelsAttr(th[t].kind)
       IN  IF Artifact(th[t].kind, stat) \in missing
           THEN /\ th' = Finish(t, "FileNotFoundError", 0)
                /\ UNCHANGED heap
           ELSE /\ heap' = [heap EXCEPT ![obj] = @ \cup {stat}]
                /\ th' = [th EXCEPT ![t] = [@ EXCEPT !.pc = IF th[t].k = Len(STAT_NAMES)
                                                             THEN "ret" ELSE "load",
                                                     !.k = @ + 1]]
    /\ UNCHANGED <<_baseline_models, _ripple_models, _baseline_features, _ripple_features,
                   returned, msFrame>>

\* get_*_models: "return self._models" after the loop
ReturnModels(t) ==
    /\ th[t].pc = "ret"
    /\ LET obj == ModelsAttr(th[t].kind)
       IN  /\ th' = AfterModels(t, obj)
           /\ returned' = returned \cup {[obj |-> obj, keys |-> heap[obj]]}
    /\ UNCHANGED <<heap, _baseline_models, _ripple_models, _baseline_features,
                   _ripple_features, msFrame>>

\* get_*_features: the attribute is assigned only after the file was read
GetFeatures(t) ==
    /\ th[t].pc = "features"
    /\ IF FeaturesAttr(th[t].kind)
       THEN /\ th' = [th EXCEPT ![t] = [@ EXCEPT !.pc = "predict"]]
            /\ UNCHANGED <<_baseline_features, _ripple_features>>
       ELSE IF Artifact(th[t].kind, "features") \in missing
       THEN /\ th' = Finish(t, "FileNotFoundError", 0)
            /\ UNCHANGED <<_baseline_features, _ripple_features>>
       ELSE /\ th' = [th EXCEPT ![t] = [@ EXCEPT !.pc = "predict"]]
            /\ SetFeaturesAttr(th[t].kind)
    /\ UNCHANGED <<heap, _baseline_models, _ripple_models, returned, msFrame>>

\* _predict_stats: the loop "model = models[stat]" over STAT_NAMES, and what
\* the public function does with its outcome
Predict(t) ==
    /\ th[t].pc = "predict"
    /\ LET key_error == ~(AllStats \subseteq heap[th[t].models])
       IN  th' = IF th[t].fn = "get_ripple_effect"
                 THEN IF key_error THEN Finish(t, "ok", 0)
                      ELSE IF th[t].pass = 1
                      THEN [th EXCEPT ![t] = [@ EXCEPT !.pc = "check", !.pass = 2, !.models = 0]]
                      ELSE Finish(t, "ok", 1)
                 ELSE IF key_error THEN Finish(t, "KeyError", 0) ELSE Finish(t, "ok", 1)
    /\ UNCHANGED <<heap, _baseline_models, _ripple_models, _baseline_features,
                   _ripple_features, returned, msFrame>>

ModelStoreNext ==
    \/ StartPreload
    \/ \E t \in Threads :
          \/ StartCall(t)
          \/ CheckModels(t)
          \/ NewModels(t)
          \/ LoadModel(t)
          \/ ReturnModels(t)
          \/ GetFeatures(t)
          \/ Predict(t)

SpecModelStore == ModelStoreInit /\ [][ModelStoreNext]_vars

(***************************************************************************)
(* build_player_features of process_data.py over small game logs, main()'s *)
(* processed dataset of them, and _build_row_data of predict.py on that    *)
(* dataset.  Box-score values and averages are in thousandths.             *)
(***************************************************************************)
LAST5 == 5
LAST10 == 10
TREND_MIN_PERIODS == 3

\* the rows of i's group that come before row i (what shift(1) leaves of an
\* expanding or cumulative window): groupby(["player_id", "season"])
SeasonGroupBefore(gl, i) ==
    {j \in 1..(i - 1) : gl[j].player_id = gl[i].player_id /\ gl[j].season = gl[i].season}

\* groupby(["player_id", "opponent"])
OpponentGroupBefore(gl, i) ==
    {j \in 1..(i - 1) : gl[j].player_id = gl[i].player_id /\ gl[j].opponent = gl[i].opponent}

\* the last n rows of S: rolling(n, min_periods=1) ending at the previous row
LastN(S, n) == {j \in S : Cardinality({k \in S : k > j}) < n}

\* mean of a column over the rows S, NaN over no row
MeanOf(gl, S, col) ==
    IF S = {} THEN NaN ELSE Num(SumOver(S, [j \in S |-> gl[j][col]]) \div Cardinality(S))

\* compute_slope: np.polyfit(arange(n), x, 1)[0] over the window W
compute_slope(gl, W, col) ==
    LET n == Cardinality(W)
        idx == [j \in W |-> Cardinality({k \in W : k < j})]
        sum_i == SumOver(W, idx)
        sum_x == SumOver(W, [j \in W |-> gl[j][col]])
        sum_ix == SumOver(W, [j \in W |-> idx[j] * gl[j][col]])
        sum_ii == SumOver(W, [j \in W |-> idx[j] * idx[j]])
    IN  (n * sum_ix - sum_i * sum_x) \div (n * sum_ii - sum_i * sum_i)

\* rolling(10, min_periods=3).apply(compute_slope).shift(1)
MinutesTrend(gl, before) ==
    LET W == LastN(before, LAST10)
    IN  IF Cardinality(W) < TREND_MIN_PERIODS THEN NaN ELSE Num(compute_slope(gl, W, "minutes"))

build_player_features(gl) ==
    [i \in 1..Len(gl) |->
        LET before == SeasonGroupBefore(gl, i)
            home == {j \in before : gl[j].home_away = HOME}
        IN  [player_id |-> gl[i].player_id, game_date |-> gl[i].game_date,
             season |-> gl[i].season, team_abbr |-> gl[i].team_abbr,
             opponent |-> gl[i].opponent, home_away |-> gl[i].home_away,
             season_avg_pts |-> MeanOf(gl, before, "pts"),
             season_avg_minutes |-> MeanOf(gl, before, "minutes"),
             last5_avg_pts |-> MeanOf(gl, LastN(before, LAST5), "pts"),
             last10_avg_pts |-> MeanOf(gl, LastN(before, LAST10), "pts"),
             home_avg_pts |-> MeanOf(gl, home, "pts"),
             away_avg_pts |-> MeanOf(gl, before \ home, "pts"),
             vs_opp_avg_pts |-> MeanOf(gl, OpponentGroupBefore(gl, i), "pts"),
             minutes_trend |-> MinutesTrend(gl, before),
             games_played_season |-> Cardinality(before)]]

\* the rolling and average columns of a row of build_player_features
RollingFeatures ==
    {"season_avg_pts", "season_avg_minutes", "last5_avg_pts", "last10_avg_pts",
     "home_avg_pts", "away_avg_pts", "vs_opp_avg_pts", "minutes_trend"}

\* main(): current_team from each player's latest game, then the rows whose
\* season averages are all NaN dropped; columns a game log of this model
\* does not carry hold the same value in every game
ProcessedDataset(df) ==
    LET latest_team(p) == df[LatestOf(df, RowsWhere(df, "player_id", p))].team_abbr
        kept == {i \in 1..Len(df) : notna(df[i].season_avg_pts)}
        rows == Pick(df, kept)
    IN  [k \in 1..Len(rows) |->
            [player_id |-> rows[k].player_id, team_abbr |-> rows[k].team_abbr,
             current_team |-> latest_team(rows[k].player_id),
             game_date |-> rows[k].game_date, season |-> rows[k].season,
             opponent |-> rows[k].opponent, home_away |-> rows[k].home_away,
             position |-> PositionOf(rows[k].player_id),
             games_played_season |-> rows[k].games_played_season,
             season_avg_pts |-> rows[k].season_avg_pts.n,
             season_avg_ast |-> 3000, season_avg_reb |-> 5000,
             season_avg_stl |-> 1000, season_avg_blk |-> 500,
             season_avg_minutes |-> rows[k].season_avg_minutes.n,
             season_avg_fg_pct |-> 450, season_avg_ft_pct |-> 800,
             vs_opp_avg_pts |-> rows[k].vs_opp_avg_pts,
             injury_config_hash |-> Healthy,
             games_with_this_config |-> 0]]

MaxLogGames == 4
LogDays == 1..MaxLogGames
OtherPlayerGames == 2

\* a box score: points and minutes of one game
BoxScores == {[pts |-> 10000, minutes |-> 20000], [pts |-> 30000, minutes |-> 36000]}

\* what a corrected box score adds to the points and minutes of a game
Correction == [pts |-> 6000, minutes |-> 3000]

\* the logs of player 1 (one game per day, season 2 starting after day
\* `split`, the first game played for team Y when `traded`) followed by two
\* games of player 2
GameLogs(split, opp, box, traded) ==
    [k \in 1..(MaxLogGames + OtherPlayerGames) |->
        IF k <= MaxLogGames
        THEN [player_id |-> 1, game_date |-> k, season |-> IF k <= split THEN 1 ELSE 2,
              team_abbr |-> IF traded /\ k = 1 THEN "Y" ELSE "X",
              opponent |-> opp[k], home_away |-> HomeAwayOn(k),
              pts |-> box[k].pts, minutes |-> box[k].minutes]
        ELSE [player_id |-> 2, game_date |-> k - MaxLogGames, season |-> 1,
              team_abbr |-> "X", opponent |-> "Z", home_away |-> HomeAwayOn(k),
              pts |-> 20000, minutes |-> 30000]]

PlayerFeaturesInit ==
    /\ FBIdle
    /\ TrainIdle
    /\ RippleTrainerIdle
    /\ ModelStoreIdle
    /\ YIdle
    /\ \E split \in 0..MaxLogGames, opp \in [LogDays -> {"Z", "W"}],
          box \in [LogDays -> BoxScores], traded \in BOOLEAN :
          game_logs = GameLogs(split, opp, box, traded)
    /\ features_df = build_player_features(game_logs)
    /\ data = ProcessedDataset(features_df)
    /\ ripple_metadata = DefaultMetadata
    /\ svCall = NoCall
    /\ svOut = Failure("")
    /\ changed_game = 0
    /\ changed_df = <<>>
    /\ scenario_row = NoRowData

\* the pipeline is run again after the box score of one game was corrected
ReprocessChangedGame ==
    /\ changed_game = 0
    /\ \E g \in 1..Len(game_logs) :
          /\ changed_game' = g
          /\ changed_df' = build_player_features(
                 [game_logs EXCEPT ![g] = [@ EXCEPT !.pts = @ + Correction.pts,
                                                    !.minutes = @ + Correction.minutes]])
    /\ UNCHANGED <<game_logs, features_df, scenario_row, svVars, fbVars, trVars, rtVars, msVars, yVars>>

\* _build_row_data(player_id, opponent_team, home_or_away, date) on the dataset
CallBuildRowData ==
    /\ svCall.fn = "none"
    /\ \E player_id \in {1, 2}, opponent_team \in {NoOpponent, "Z", "W"},
          date \in {NoDate, 2, MaxLogGames} :
          /\ svCall' = [NoCall EXCEPT !.fn = "_build_row_data", !.player_id = player_id,
                                      !.opponent_team = opponent_team,
                                      !.home_or_away = HOME, !.date = date]
          /\ scenario_row' = _build_row_data(data, player_id, opponent_team, HOME, date, NoContext)
    /\ UNCHANGED <<game_logs, features_df, changed_game, changed_df, data, ripple_metadata,
                   svOut, fbVars, trVars, rtVars, msVars, yVars>>

PlayerFeaturesNext ==
    \/ ReprocessChangedGame
    \/ CallBuildRowData

SpecPlayerFeatures == PlayerFeaturesInit /\ [][PlayerFeaturesNext]_vars

(***************************************************************************)
(* C1: build_feature_matrix(rows, features) equals, row by row and element *)
(* by element, build_feature_vector(row, features) of each row, for every  *)
(* table and every feature-name list.                                      *)
(***************************************************************************)
C1_BatchEqualsSingle ==
    (fbMat.done /\ \A r \in 1..Len(fbTable) : fbVecs[r].done)
        => /\ fbMat.ok
           /\ fbMat.m = [r \in 1..Len(fbTable) |-> fbVecs[r].v]

(***************************************************************************)
(* C2: get_ripple_effect with an empty absent list returns a ripple effect *)
(* of exactly zero for every player it lists and each of the 8 statistics. *)
(***************************************************************************)
C2_EmptyAbsenceZeroRipple ==
    (svCall.fn = "get_ripple_effect" /\ svCall.absent_player_ids = <<>> /\ svOut.ok)
        => \A k \in 1..Len(svOut.player_predictions) : \A stat \in Range(STAT_NAMES) :
              svOut.player_predictions[k].ripple_effect[stat] = 0

C2_Witness ==
    /\ svCall.fn = "get_ripple_effect"
    /\ svCall.absent_player_ids = <<>>
    /\ svOut.ok
    /\ ripple_metadata.chosen_approach = "B"
    /\ Len(svOut.player_predictions) >= 2
    /\ svOut.player_predictions[2].ripple_effect["pts"] = 0
    /\ svOut.player_predictions[2].with_injuries["pts"] # 0

(***************************************************************************)
(* C3: the configuration identity depends only on the set of absent ids:   *)
(* collections with the same ids get the same identity, collections with   *)
(* different id sets get different ones, and the identity the serving      *)
(* lookup computes for a collection is the one training computes for its   *)
(* set of ids.                                                             *)
(***************************************************************************)
C3_IdentityOfTheSet ==
    svCall.fn \in {"predict_with_injuries", "get_ripple_effect"}
        => LET given == svCall.absent_player_ids
           IN  given # <<>>
                 => /\ ServingConfigHash(given) = ConfigHash(Range(given))
                    /\ \A other \in AbsentLists \ {<<>>} :
                          (Range(other) = Range(given))
                              <=> (ServingConfigHash(other) = ServingConfigHash(given))

(***************************************************************************)
(* C4: with at least 5 qualified players in a (team, season) exactly 5 are *)
(* flagged starters, all qualified, none with fewer minutes than an        *)
(* unflagged qualified player; with fewer than 5 all qualified players are *)
(* starters; the starter slots of the injury context are in non-increasing *)
(* order of average minutes.                                               *)
(***************************************************************************)
QualifiedOf(key) ==
    {i \in 1..Len(roles) : /\ roles[i].team_id = key[1] /\ roles[i].season = key[2]
                           /\ roles[i].games_played >= MIN_GAMES_FOR_ROLE}

StartersOf(key) ==
    {i \in 1..Len(roles) : /\ roles[i].team_id = key[1] /\ roles[i].season = key[2]
                           /\ roles[i].is_starter}

C4_StartersTopFiveQualified ==
    /\ trPc \in {"roles", "loop"} =>
          \A key \in TeamSeasons(roles) :
              LET Q == QualifiedOf(key)
                  S == StartersOf(key)
              IN  /\ S \subseteq Q
                  /\ Cardinality(Q) >= 5 => Cardinality(S) = 5
                  /\ Cardinality(Q) < 5 => S = Q
                  /\ \A i \in S, j \in Q \ S : roles[i].avg_minutes >= roles[j].avg_minutes
    /\ trPc = "loop" =>
          \A key \in DOMAIN role_lookup :
              LET starters == SelectSeq(role_lookup[key], LAMBDA r : r.is_starter)
              IN  /\ \A i, j \in 1..Len(starters) :
                        i < j => starters[i].avg_minutes >= starters[j].avg_minutes
                  /\ \A i \in 1..5 : i <= Len(starters) =>
                        StarterSlots(role_lookup[key])[i] = starters[i].player_id

C4_Witness ==
    /\ trPc = "loop"
    /\ Len(injury_features_records) = 1
    /\ Cardinality(QualifiedOf(<<"X", 1>>)) = 6
    /\ Cardinality(StartersOf(<<"X", 1>>)) = 5
    /\ \E i \in StartersOf(<<"X", 1>>), j \in QualifiedOf(<<"X", 1>>) \ StartersOf(<<"X", 1>>) :
          roles[i].avg_minutes = roles[j].avg_minutes
    /\ injury_features_records[1].n_starters_out = 2

(***************************************************************************)
(* C5: predict_baseline and predict_with_injuries raise ValueError when    *)
(* the player has no rows in the dataset or no row dated strictly before   *)
(* the as-of date, and return no prediction then.                          *)
(***************************************************************************)
RowsOfPlayer(player_id) == {i \in 1..Len(data) : data[i].player_id = player_id}

NothingBefore(player_id, date) ==
    \/ RowsOfPlayer(player_id) = {}
    \/ date # NoDate /\ \A i \in RowsOfPlayer(player_id) : ~(data[i].game_date < date)

C5_NotFoundRaises ==
    (/\ svCall.fn \in {"predict_baseline", "predict_with_injuries"}
     /\ NothingBefore(svCall.player_id, svCall.date))
        => svOut = Failure("ValueError")

C5_Witness ==
    /\ svCall.fn = "predict_with_injuries"
    /\ svCall.date # NoDate
    /\ svCall.absent_player_ids # <<>>
    /\ RowsOfPlayer(svCall.player_id) # {}
    /\ NothingBefore(svCall.player_id, svCall.date)
    /\ svOut = Failure("ValueError")

(***************************************************************************)
(* C6: for a player whose rows are first for team X and later for team Y,  *)
(* with no date filter: the prediction row is a team-Y row, the ripple     *)
(* listing of team X never holds the player, and the player, when the only *)
(* absent one, leaves every starter, role and talent-loss feature of team  *)
(* X's injury context at zero.                                             *)
(***************************************************************************)
MovedFromTo(player_id, X, Y) ==
    LET I == RowsOfPlayer(player_id)
    IN  /\ X # Y
        /\ \E i \in I : data[i].team_abbr = X
        /\ \E i \in I : data[i].team_abbr = Y
        /\ \A i, j \in I : (data[i].team_abbr = X /\ data[j].team_abbr = Y)
                              => data[i].game_date < data[j].game_date
        /\ \A i \in I : data[i].team_abbr \in {X, Y}

NoLossFeatures(ctx) == [ctx EXCEPT !.games_with_this_config = 0] = ZeroContext

C6_TradedPlayerOnlyNewTeam ==
    \A player_id \in ServePlayers : \A X, Y \in Range(Teams) :
        (MovedFromTo(player_id, X, Y) /\ svCall.date = NoDate /\ svOut.ok)
            => /\ (svCall.fn = "predict_with_injuries" /\ svCall.player_id = player_id)
                     => svOut.team_abbr = Y
               /\ (svCall.fn = "get_ripple_effect" /\ svCall.team = X)
                     => /\ player_id \notin Range(svOut.active_ids)
                        /\ svCall.absent_player_ids = <<player_id>>
                              => NoLossFeatures(svOut.injury_context)

(***************************************************************************)
(* C7: the (game, team) pairs are processed in date order and the          *)
(* games_with_this_config recorded for a game is the number of strictly    *)
(* earlier games of the same team with the same configuration identity;    *)
(* other teams and other configurations do not count.                      *)
(***************************************************************************)
GameOf(game_id) == trGames[CHOOSE g \in 1..Len(trGames) : trGames[g].game_id = game_id]

C7_CountsStrictlyEarlierGames ==
    \A k \in 1..Len(injury_features_records) :
        LET record == injury_features_records[k]
            game == GameOf(record.game_id)
            earlier == {g \in 1..Len(trGames) :
                           /\ trGames[g].game_date < game.game_date
                           /\ trGames[g].team_id = record.team_id
                           /\ ConfigHash(trGames[g].absent) = record.injury_config_hash}
        IN  /\ record.injury_config_hash = ConfigHash(game.absent)
            /\ record.games_with_this_config = Cardinality(earlier)
            /\ \A j \in 1..(k - 1) :
                  GameOf(injury_features_records[j].game_id).game_date < game.game_date

C7_Witness ==
    /\ Len(injury_features_records) = 3
    /\ LET r == injury_features_records
       IN  /\ r[1].team_id = r[3].team_id
           /\ r[2].team_id # r[1].team_id
           /\ r[1].injury_config_hash = r[2].injury_config_hash
           /\ r[1].injury_config_hash = r[3].injury_config_hash
           /\ r[1].injury_config_hash # Healthy
           /\ r[2].games_with_this_config = 0
           /\ r[3].games_with_this_config = 1
           /\ GameOf(r[1].game_id) # trGames[1]

(***************************************************************************)
(* C8: at serving time the configuration experience of a team and a        *)
(* non-empty absent set is the last count the dataset holds for that team  *)
(* and the identity of that set (0 if it holds none), and no serving call  *)
(* changes the dataset.                                                    *)
(***************************************************************************)
LastObservedCount(team_abbr, absent_set) ==
    LET seen == {i \in 1..Len(data) : /\ data[i].team_abbr = team_abbr
                                     /\ data[i].injury_config_hash = ConfigHash(absent_set)}
    IN  IF seen = {} THEN 0 ELSE data[LatestOf(data, seen)].games_with_this_config

C8_FrozenLastObservedCount ==
    (/\ svCall.fn \in {"predict_with_injuries", "get_ripple_effect"}
     /\ svCall.absent_player_ids # <<>>
     /\ svOut.ok)
        => svOut.injury_context.games_with_this_config
              = LastObservedCount(svOut.team_abbr, Range(svCall.absent_player_ids))

(***************************************************************************)
(* C9: each role-loss flag of the serving injury context is 1 exactly when *)
(* a holder of the role is absent, the holders of a role being all the     *)
(* starters tied for the maximum of the role's statistic.                  *)
(***************************************************************************)
RoleFlagsOfHolders(stats_df, absent_set, stable) ==
    LET qualified == QualifiedPool(stats_df, stable)
        starters == head(qualified, 5)
        holders(key(_)) ==
            {starters[i].player_id : i \in RoleHolders([j \in 1..Len(starters) |-> key(starters[j])], 1..Len(starters))}
        out(key(_)) == Flag(holders(key) \cap absent_set # {})
    IN  <<out(AvgAst), out(AvgPts), out(AvgReb), out(AvgStlBlk)>>

RoleFlags(ctx) ==
    <<ctx.ball_handler_out, ctx.primary_scorer_out, ctx.primary_rebounder_out,
      ctx.primary_defender_out>>

C9_RoleFlagForAnyTiedHolder ==
    (/\ svCall.fn \in {"predict_with_injuries", "get_ripple_effect"}
     /\ svCall.absent_player_ids # <<>>
     /\ svOut.ok
     /\ TeamRows(data, svOut.team_abbr, svCall.date) # {})
        => \E stable \in BOOLEAN :
              RoleFlags(svOut.injury_context)
                 = RoleFlagsOfHolders(
                      PlayerStats(data, SeasonRows(data, TeamRows(data, svOut.team_abbr,
                                                                  svCall.date))),
                      Range(svCall.absent_player_ids), stable)

(***************************************************************************)
(* C10: the four talent-loss totals of a training record are the sums of   *)
(* the season averages over the absent players of the team-season's        *)
(* qualified pool (games played >= 20); an absent player outside the pool  *)
(* adds nothing.                                                           *)
(***************************************************************************)
QualifiedAbsent(game) ==
    {i \in 1..Len(roles) : /\ roles[i].team_id = game.team_id
                           /\ roles[i].season = game.season
                           /\ roles[i].games_played >= MIN_GAMES_FOR_ROLE
                           /\ roles[i].player_id \in game.absent}

C10_TotalsOverQualifiedPool ==
    \A k \in 1..Len(injury_features_records) :
        LET record == injury_features_records[k]
            out == QualifiedAbsent(GameOf(record.game_id))
        IN  /\ record.total_pts_lost = round2(SumOver(out, [i \in out |-> roles[i].avg_pts]))
            /\ record.total_ast_lost = round2(SumOver(out, [i \in out |-> roles[i].avg_ast]))
            /\ record.total_reb_lost = round2(SumOver(out, [i \in out |-> roles[i].avg_reb]))
            /\ record.total_minutes_lost
                  = round2(SumOver(out, [i \in out |-> roles[i].avg_minutes]))


(***************************************************************************)
(* C11: the trainer selects formulation A exactly when the median of the   *)
(* per-statistic mean absolute sensitivities is strictly greater than the  *)
(* threshold 0.3, and formulation B for every other median.                *)
(***************************************************************************)
C11_FormulationAIffMedianExceeds ==
    rtPc = "done" =>
        (ripple_metadata.chosen_approach = "A"
            <=> Median2(DecisionRipples(mean_ripples)) > 2 * RIPPLE_THRESHOLD)

(***************************************************************************)
(* C12: while an artifact a public function predicts with (a model file or *)
(* the feature list of its model type) is missing, every call of it, the   *)
(* first and every later one, after a failed preload too, fails with       *)
(* FileNotFoundError: never with another error, never with a successful    *)
(* result.                                                                 *)
(***************************************************************************)
NeededMissing(fn) == \E a \in missing : a[1] = ModelTypeOf(fn)

C12_MissingArtifactAlwaysFileNotFound ==
    \A t \in Threads \ {Lifespan} :
        (th[t].pc = "idle" /\ th[t].calls > 0 /\ NeededMissing(th[t].fn))
            => th[t].result = "FileNotFoundError"

(***************************************************************************)
(* C13: with all artifacts present and threads calling the getters         *)
(* concurrently, every model dictionary a getter returned held the models  *)
(* of all 8 statistics when it was returned and has not changed since.     *)
(***************************************************************************)
C13_NoPartialModelDict ==
    missing = {} =>
        \A r \in returned : r.keys = AllStats /\ heap[r.obj] = r.keys

(***************************************************************************)
(* C14: in every player entry get_ripple_effect returns, for each of the 8 *)
(* statistics the returned ripple_effect equals the returned with_injuries *)
(* minus the returned baseline, all three as rounded to one decimal.       *)
(***************************************************************************)
C14_RippleIsDifferenceOfReturned ==
    (svCall.fn = "get_ripple_effect" /\ svOut.ok)
        => \A k \in 1..Len(svOut.player_predictions) : \A stat \in Range(STAT_NAMES) :
              svOut.player_predictions[k].ripple_effect[stat]
                  = svOut.player_predictions[k].with_injuries[stat]
                      - svOut.player_predictions[k].baseline[stat]

(***************************************************************************)
(* C15: in the scenario row built for a player and an opponent, when the   *)
(* player has no earlier game against the opponent (before the as-of date, *)
(* for the most recent team) the opponent feature vs_opp_avg_pts equals    *)
(* the player's season average and the matchup-unavailable marker is set;  *)
(* when there is such history the feature is the historical average        *)
(* against that opponent and no marker is set.                             *)
(***************************************************************************)
MatchupHistory ==
    LET got == _get_player_row(data, svCall.player_id, svCall.date)
    IN  {i \in 1..Len(data) :
            /\ data[i].player_id = svCall.player_id
            /\ data[i].team_abbr = data[got.i].team_abbr
            /\ data[i].opponent = svCall.opponent_team
            /\ (svCall.date # NoDate => data[i].game_date < svCall.date)}

C15_OpponentFeaturesOrSeasonFallback ==
    (svCall.fn = "_build_row_data" /\ svCall.opponent_team # NoOpponent /\ scenario_row.ok)
        => IF MatchupHistory = {}
           THEN /\ scenario_row.unavailable
                /\ scenario_row.row_data.vs_opp_avg_pts = scenario_row.row_data.season_avg_pts
           ELSE /\ ~scenario_row.unavailable
                /\ LET latest_opp == data[LatestOf(data, MatchupHistory)]
                   IN  notna(latest_opp.vs_opp_avg_pts)
                         => scenario_row.row_data.vs_opp_avg_pts = latest_opp.vs_opp_avg_pts

(***************************************************************************)
(* C16: every rolling or average feature of a row of build_player_features *)
(* depends only on the games of the same player in the same season dated   *)
(* strictly before the row's game: a change to the row's own game, to a    *)
(* later game, to a game of another season or of another player leaves it  *)
(* unchanged; and games_played_season is the number of strictly earlier    *)
(* games of the player-season.                                             *)
(***************************************************************************)
StrictlyEarlierSameSeason(g, i) ==
    /\ game_logs[g].player_id = game_logs[i].player_id
    /\ game_logs[g].season = game_logs[i].season
    /\ game_logs[g].game_date < game_logs[i].game_date

C16_FeaturesOfStrictlyEarlierSeasonGames ==
    /\ \A i \in 1..Len(features_df) :
          features_df[i].games_played_season
              = Cardinality({g \in 1..Len(game_logs) : StrictlyEarlierSameSeason(g, i)})
    /\ changed_game # 0
          => \A i \in 1..Len(features_df) :
                ~StrictlyEarlierSameSeason(changed_game, i)
                    => \A f \in RollingFeatures : changed_df[i][f] = features_df[i][f]

(***************************************************************************)
(* C17: build_feature_vector returns a vector as long as the feature-name  *)
(* list whose i-th element is the value of the i-th named feature: the     *)
(* categorical encoding for the position and home/away indicators, the     *)
(* number a present value holds or spells, and the missing-value marker    *)
(* for a name absent from the row or a value that is no number; the call   *)
(* never fails.                                                            *)
(***************************************************************************)
IsNumberText(v) == v.t = "str" /\ v.s # <<>> /\ \A i \in 1..Len(v.s) : IsDigit(v.s[i])

\* the text of a present, non-missing field holds the letter in either case
FieldHasLetter(row, field, letter) ==
    /\ Has(row, field)
    /\ row[field].t = "str"
    /\ \E i \in 1..Len(row[field].s) : UpperChar(row[field].s[i]) = letter

FieldIsHome(row) ==
    /\ Has(row, "home_away")
    /\ row.home_away.t = "str"
    /\ Len(row.home_away.s) = Len(HOME)
    /\ \A i \in 1..Len(HOME) : UpperChar(row.home_away.s[i]) = HOME[i]

ExpectedFeature(row, name) ==
    CASE name = "pos_G" -> Num(IF FieldHasLetter(row, "position", "G") THEN 1 ELSE 0)
      [] name = "pos_F" -> Num(IF FieldHasLetter(row, "position", "F") THEN 1 ELSE 0)
      [] name = "pos_C" -> Num(IF FieldHasLetter(row, "position", "C") THEN 1 ELSE 0)
      [] name = "is_home" -> Num(IF FieldIsHome(row) THEN 1 ELSE 0)
      [] OTHER -> IF ~Has(row, name) THEN NaN
                  ELSE IF row[name].t = "num" THEN row[name]
                  ELSE IF IsNumberText(row[name]) THEN Num(ParseDigits(row[name].s))
                  ELSE NaN

C17_VectorInListOrderMissingAsNaN ==
    \A r \in 1..Len(fbTable) :
        fbVecs[r].done
            => /\ Len(fbVecs[r].v) = Len(fbFeatures)
               /\ \A i \in 1..Len(fbFeatures) :
                     fbVecs[r].v[i] = ExpectedFeature(fbTable[r], fbFeatures[i])

C17_Witness ==
    /\ Len(fbTable) >= 1
    /\ fbVecs[1].done
    /\ fbFeatures = <<"experience", "age">>
    /\ ~Has(fbTable[1], "experience")
    /\ Has(fbTable[1], "age") /\ fbTable[1].age.t = "str" /\ ~IsNumberText(fbTable[1].age)
    /\ fbVecs[1].v = <<NaN, NaN>>

(***************************************************************************)
(* C18: in every (team, season) with at least one starter, each of the     *)
(* roles ball handler, scorer, rebounder and defender is held by exactly   *)
(* the starters whose statistic (assists, points, rebounds, steals plus    *)
(* blocks) is the maximum among the starters: all tied starters hold the   *)
(* role, somebody holds it, and no non-starter does.                       *)
(***************************************************************************)
TopStarters(S, col) == {i \in S : \A j \in S : col[j] <= col[i]}

RowsOfKey(key) ==
    {i \in 1..Len(roles) : roles[i].team_id = key[1] /\ roles[i].season = key[2]}

C18_RolesAreTheTopStarters ==
    trPc \in {"roles", "loop"} =>
        \A key \in TeamSeasons(roles) :
            LET S == StartersOf(key)
                K == RowsOfKey(key)
                ast == [i \in K |-> roles[i].avg_ast]
                pts == [i \in K |-> roles[i].avg_pts]
                reb == [i \in K |-> roles[i].avg_reb]
                def == [i \in K |-> roles[i].avg_stl + roles[i].avg_blk]
            IN  S # {} =>
                  /\ {i \in K : roles[i].role_ball_handler} = TopStarters(S, ast)
                  /\ {i \in K : roles[i].role_scorer} = TopStarters(S, pts)
                  /\ {i \in K : roles[i].role_rebounder} = TopStarters(S, reb)
                  /\ {i \in K : roles[i].role_defender} = TopStarters(S, def)
                  /\ TopStarters(S, ast) # {} /\ TopStarters(S, pts) # {}
                  /\ TopStarters(S, reb) # {} /\ TopStarters(S, def) # {}

\* two starters tied for the most points both hold the scorer role, a third
\* starter does not, and a player of the team who is no starter has no role
C18_Witness ==
    /\ trPc \in {"roles", "loop"}
    /\ \E key \in TeamSeasons(roles) :
          LET S == StartersOf(key)
          IN  /\ \E i, j, k \in S :
                    /\ i # j
                    /\ roles[i].role_scorer /\ roles[j].role_scorer
                    /\ roles[i].avg_pts = roles[j].avg_pts
                    /\ ~roles[k].role_scorer
              /\ \E n \in RowsOfKey(key) \ S :
                    /\ \A m \in S : roles[n].avg_pts > roles[m].avg_pts
                    /\ ~roles[n].role_scorer

(***************************************************************************)
(* C19: when the prediction of one active player fails because no row of   *)
(* the player is found, get_ripple_effect still succeeds, leaves out that  *)
(* player only and lists every other active player, whichever of the       *)
(* active players fail.                                                    *)
(***************************************************************************)
\* the player has a row of the latest team dated before the as-of date
PlayerRowFound(pid) ==
    LET player_df == RowsWhere(data, "player_id", pid)
    IN  /\ player_df # {}
        /\ \E i \in player_df :
              /\ data[i].team_abbr = data[LatestOf(data, player_df)].team_abbr
              /\ svCall.date # NoDate => data[i].game_date < svCall.date

ListedIds == [k \in 1..Len(svOut.player_predictions) |-> svOut.player_predictions[k].player_id]

C19_FailedPlayerAloneOmitted ==
    (svCall.fn = "get_ripple_effect" /\ TeamRows(data, svCall.team, svCall.date) # {})
        => /\ svOut.ok
           /\ ListedIds = SelectSeq(svOut.active_ids, PlayerRowFound)

\* an active player without a row before the date is left out while the
\* active players before and after it in the loop are listed
C19_Witness ==
    /\ svCall.fn = "get_ripple_effect"
    /\ svOut.ok
    /\ \E i, j, k \in 1..Len(svOut.active_ids) :
          /\ i < j /\ j < k
          /\ PlayerRowFound(svOut.active_ids[i])
          /\ ~PlayerRowFound(svOut.active_ids[j])
          /\ PlayerRowFound(svOut.active_ids[k])
          /\ Range(ListedIds) = Range(svOut.active_ids) \ {svOut.active_ids[j]}

(***************************************************************************)
(* C20: _predict_stats adds the player's season average of a statistic to  *)
(* the model's output exactly when the ripple models are used and the      *)
(* persisted metadata records formulation B; the output of the baseline    *)
(* models and of the ripple models of formulation A is returned as it is.  *)
(* So under B each of the 8 predictions is season average + predicted      *)
(* delta.                                                                  *)
(***************************************************************************)
\* what the models of a type return for the row a call builds, before any
\* season average is added
ModelOutput(model_type, row_data, stat) ==
    ModelPredict(model_type, stat,
                 build_feature_vector(row_data,
                     IF model_type = "baseline" THEN BaselineFeatureList
                     ELSE RippleFeatureList(ripple_metadata.chosen_approach)))

\* the prediction the claim describes for the player of the latest row i
ClaimedPrediction(model_type, row_data, i, stat) ==
    IF model_type = "ripple" /\ ripple_metadata.chosen_approach = "B"
    THEN data[i][stat_to_avg(stat)] + ModelOutput(model_type, row_data, stat)
    ELSE ModelOutput(model_type, row_data, stat)

C20_BaselineCall ==
    (svCall.fn = "predict_baseline" /\ svOut.ok) =>
        LET built == _build_row_data(data, svCall.player_id, svCall.opponent_team,
                                     svCall.home_or_away, svCall.date, NoContext)
            i == _get_player_row(data, svCall.player_id, svCall.date).i
        IN  \A stat \in Range(STAT_NAMES) :
                svOut.predictions[stat]
                    = round1(ClaimedPrediction("baseline", built.row_data, i, stat))

C20_InjuryCall ==
    (svCall.fn = "predict_with_injuries" /\ svOut.ok) =>
        LET i == _get_player_row(data, svCall.player_id, svCall.date).i
        IN  \E stable \in BOOLEAN, stable2 \in BOOLEAN :
                LET ctx == _compute_injury_context(data, data[i].team_abbr,
                                                   svCall.absent_player_ids, svCall.date,
                                                   stable, stable2)
                    built == _build_row_data(data, svCall.player_id, svCall.opponent_team,
                                             svCall.home_or_away, svCall.date, ctx)
                IN  \A stat \in Range(STAT_NAMES) :
                        svOut.predictions[stat]
                            = round1(ClaimedPrediction("ripple", built.row_data, i, stat))

C20_RippleCall ==
    (svCall.fn = "get_ripple_effect" /\ svOut.ok) =>
        \A k \in 1..Len(svOut.player_predictions) :
            LET pid == svOut.player_predictions[k].player_id
                built == _build_row_data(data, pid, svCall.opponent_team,
                                         svCall.home_or_away, svCall.date, NoContext)
                i == _get_player_row(data, pid, svCall.date).i
            IN  \A stat \in Range(STAT_NAMES) :
                    svOut.player_predictions[k].baseline[stat]
                        = round1(ClaimedPrediction("ripple", built.row_data, i, stat))

C20_SeasonAverageAddedIffDelta ==
    /\ C20_BaselineCall
    /\ C20_InjuryCall
    /\ C20_RippleCall

\* a prediction with absent players under formulation B whose value is the
\* non-zero season average above the model's output
C20_Witness ==
    /\ svCall.fn = "predict_with_injuries"
    /\ svOut.ok
    /\ ripple_metadata.chosen_approach = "B"
    /\ svCall.absent_player_ids # <<>>
    /\ LET i == _get_player_row(data, svCall.player_id, svCall.date).i
       IN  /\ data[i].season_avg_pts > 0
           /\ \E stable \in BOOLEAN, stable2 \in BOOLEAN :
                 LET ctx == _compute_injury_context(data, data[i].team_abbr,
                                                    svCall.absent_player_ids, svCall.date,
                                                    stable, stable2)
                     built == _build_row_data(data, svCall.player_id, svCall.opponent_team,
                                              svCall.home_or_away, svCall.date, ctx)
                 IN  /\ svOut.predictions.pts
                          = round1(data[i].season_avg_pts + ModelOutput("ripple", built.row_data, "pts"))
                     /\ svOut.predictions.pts # round1(ModelOutput("ripple", built.row_data, "pts"))


RoleKey(r) == <<r.player_id, r.team_id, r.season>>

SameAverages(r, a) ==
    /\ r.avg_pts = a.avg_pts /\ r.avg_ast = a.avg_ast /\ r.avg_reb = a.avg_reb
    /\ r.avg_stl = a.avg_stl /\ r.avg_blk = a.avg_blk /\ r.avg_minutes = a.avg_minutes
    /\ r.games_played = a.games_played

AnyRoleFlag(r) ==
    \/ r.is_starter \/ r.role_ball_handler \/ r.role_scorer
    \/ r.role_rebounder \/ r.role_defender \/ r.role_sixth_man

\* rows of the same team-season with 20 games or more and more minutes
MoreMinutesWith20(i) ==
    {j \in 1..Len(roles) : /\ roles[j].team_id = roles[i].team_id
                           /\ roles[j].season = roles[i].season
                           /\ roles[j].games_played >= 20
                           /\ roles[j].avg_minutes >= roles[i].avg_minutes
                           /\ j # i}

C22_RoleTableCompleteAndThreshold ==
    trPc \in {"roles", "loop"} =>
        /\ \A k \in 1..Len(player_avgs) :
              Cardinality({i \in 1..Len(roles) :
                              /\ RoleKey(roles[i]) = RoleKey(player_avgs[k])
                              /\ SameAverages(roles[i], player_avgs[k])}) = 1
        /\ Len(roles) = Len(player_avgs)
        /\ \A i \in 1..Len(roles) :
              /\ roles[i].games_played < 20 => ~AnyRoleFlag(roles[i])
              /\ (roles[i].games_played = 20 /\ Cardinality(MoreMinutesWith20(i)) < 5)
                    => roles[i].is_starter

\* a starter with exactly 20 games beside a player of the same team-season
\* with 19 games and more minutes who has no flag
C22_Witness ==
    /\ trPc \in {"roles", "loop"}
    /\ \E i, j \in 1..Len(roles) :
          /\ roles[i].team_id = roles[j].team_id /\ roles[i].season = roles[j].season
          /\ roles[i].games_played = 20 /\ roles[i].is_starter
          /\ roles[j].games_played = 19 /\ ~AnyRoleFlag(roles[j])
          /\ roles[j].avg_minutes > roles[i].avg_minutes


(***************************************************************************)
(* C23: on the same team-season data (per-player season averages and games *)
(* played) and the same absent set, the serving-time _compute_injury_context *)
(* gives the same n_starters_out, starter_N_out flags, role-loss flags,    *)
(* n_rotation_players_out and talent-loss totals as the training-time      *)
(* record of build_injury_context_features, also with tied starters, with  *)
(* unqualified players and with no qualified player at all.                *)
(***************************************************************************)
\* the statistics the serving engine would hold for the team-season of a game
TeamSeasonStats(game) ==
    SelectSeq([i \in 1..Len(player_avgs) |->
                  [player_id |-> player_avgs[i].player_id,
                   team_id |-> player_avgs[i].team_id, season |-> player_avgs[i].season,
                   avg_pts |-> player_avgs[i].avg_pts, avg_ast |-> player_avgs[i].avg_ast,
                   avg_reb |-> player_avgs[i].avg_reb, avg_stl |-> player_avgs[i].avg_stl,
                   avg_blk |-> player_avgs[i].avg_blk,
                   avg_minutes |-> player_avgs[i].avg_minutes,
                   games_played |-> player_avgs[i].games_played]],
              LAMBDA r : r.team_id = game.team_id /\ r.season = game.season)

SameContext(ctx, record) ==
    /\ ctx.n_starters_out = record.n_starters_out
    /\ <<ctx.starter_1_out, ctx.starter_2_out, ctx.starter_3_out, ctx.starter_4_out,
         ctx.starter_5_out>> = record.starter_out
    /\ ctx.ball_handler_out = record.ball_handler_out
    /\ ctx.primary_scorer_out = record.primary_scorer_out
    /\ ctx.primary_rebounder_out = record.primary_rebounder_out
    /\ ctx.primary_defender_out = record.primary_defender_out
    /\ ctx.sixth_man_out = record.sixth_man_out
    /\ ctx.n_rotation_players_out = record.n_rotation_players_out
    /\ ctx.total_pts_lost = record.total_pts_lost
    /\ ctx.total_ast_lost = record.total_ast_lost
    /\ ctx.total_reb_lost = record.total_reb_lost
    /\ ctx.total_minutes_lost = record.total_minutes_lost

C23_ServingContextEqualsTraining ==
    \A k \in 1..Len(injury_features_records) :
        LET record == injury_features_records[k]
            game == GameOf(record.game_id)
            stats_df == TeamSeasonStats(game)
        IN  (game.absent # {} /\ stats_df # <<>>)
                => \E stable \in BOOLEAN, stable2 \in BOOLEAN :
                      SameContext(ContextFromStats(stats_df, SetToSeq(game.absent), 0,
                                                   stable, stable2), record)


(***************************************************************************)
(* C24: the ripple models, the ripple feature-name list and the ripple     *)
(* metadata a prediction uses come from the same training run, however the *)
(* re-running trainer and the lazily loading serving process interleave.   *)
(***************************************************************************)
C24_ArtifactsOfOneRun ==
    rsPc = "predicted" =>
        /\ \A stat \in Range(STAT_NAMES) : used.models[stat].run = used.metadata.run
        /\ used.features.run = used.metadata.run


(***************************************************************************)
(* C25: when the player has at least one row dated strictly before the     *)
(* as-of date, predict_baseline with that date succeeds and predicts from  *)
(* the player's most recent row before the date, also for a player who     *)
(* changed teams after the date.                                           *)
(***************************************************************************)
RowsBefore(player_id, date) == {i \in RowsOfPlayer(player_id) : data[i].game_date < date}

C25_MostRecentRowBeforeDate ==
    (/\ svCall.fn = "predict_baseline"
     /\ svCall.date # NoDate
     /\ RowsBefore(svCall.player_id, svCall.date) # {})
        => /\ svOut.ok
           /\ _get_player_row(data, svCall.player_id, svCall.date).i
                 = LatestOf(data, RowsBefore(svCall.player_id, svCall.date))


(***************************************************************************)
(* C26: a starter slot filled with the padding sentinel (a team-season     *)
(* with fewer than 5 starters) has its starter_N_out flag equal to 0 and   *)
(* does not count toward n_starters_out, for every absent-id list a caller *)
(* can pass; and n_starters_out is the sum of the five starter_N_out flags.*)
(***************************************************************************)
StarterFlagsOf(ctx) ==
    <<ctx.starter_1_out, ctx.starter_2_out, ctx.starter_3_out, ctx.starter_4_out,
      ctx.starter_5_out>>

\* the number of starters of the team-season the context was computed for
StartersOfContext ==
    LET pool == QualifiedPool(PlayerStats(data, SeasonRows(data,
                    TeamRows(data, svOut.team_abbr, svCall.date))), TRUE)
    IN  IF Len(pool) < 5 THEN Len(pool) ELSE 5

C26_PaddedSlotNeverOut ==
    (/\ svCall.fn \in {"predict_with_injuries", "get_ripple_effect"}
     /\ svCall.absent_player_ids # <<>>
     /\ svOut.ok
     /\ TeamRows(data, svOut.team_abbr, svCall.date) # {})
        => LET flags == StarterFlagsOf(svOut.injury_context)
           IN  /\ \A n \in 1..5 : n > StartersOfContext => flags[n] = 0
               /\ svOut.injury_context.n_starters_out = SumOver(1..5, flags)
               /\ svOut.injury_context.n_starters_out <= StartersOfContext


(***************************************************************************)
(* The API's DataStore (api/data_access.py).  The application loads the    *)
(* four CSV files at startup (main.py:37); run_refresh_job reloads them    *)
(* (scheduler.py:40-48) on the scheduler's thread or a request thread      *)
(* while other request threads run the query methods.  A frame is modelled *)
(* by the number of the load_all call that built it.                       *)
(***************************************************************************)
MaxLoads == 3
MaxRequests == 2

coreVars == <<fbVars, trVars, svVars, rtVars, msVars, pfVars, rsVars>>

CoreIdle ==
    /\ FBIdle
    /\ TrainIdle
    /\ ServeIdle
    /\ RippleTrainerIdle
    /\ ModelStoreIdle
    /\ PlayerFeaturesIdle
    /\ RetrainServingIdle

\* the state after the lifespan's load_all (main.py:37)
DataStoreInit ==
    /\ CoreIdle
    /\ RefreshIdle
    /\ ChatIdle
    /\ CollectIdle
    /\ _processed_df = 1
    /\ _rosters_df = 1
    /\ _absences_df = 1
    /\ _schedule_df = 1
    /\ ldPc = "idle"
    /\ loads = 1
    /\ rd = [r \in Readers |-> IdleReader]

dsFrame == <<coreVars, rfVars, chVars, clVars>>

\* load_all, lines 46-55: the four frames are built in local variables
LoadAllBuild ==
    /\ ldPc = "idle"
    /\ loads < MaxLoads
    /\ loads' = loads + 1
    /\ ldPc' = "built"
    /\ UNCHANGED <<_processed_df, _rosters_df, _absences_df, _schedule_df, rd, dsFrame>>

\* line 58
SwapProcessed ==
    /\ ldPc = "built"
    /\ _processed_df' = loads
    /\ ldPc' = "processed"
    /\ UNCHANGED <<_rosters_df, _absences_df, _schedule_df, loads, rd, dsFrame>>

\* line 59
SwapRosters ==
    /\ ldPc = "processed"
    /\ _rosters_df' = loads
    /\ ldPc' = "rosters"
    /\ UNCHANGED <<_processed_df, _absences_df, _schedule_df, loads, rd, dsFrame>>

\* line 60
SwapAbsences ==
    /\ ldPc = "rosters"
    /\ _absences_df' = loads
    /\ ldPc' = "absences"
    /\ UNCHANGED <<_processed_df, _rosters_df, _schedule_df, loads, rd, dsFrame>>

\* line 61 and the return
SwapSchedule ==
    /\ ldPc = "absences"
    /\ _schedule_df' = loads
    /\ ldPc' = "idle"
    /\ UNCHANGED <<_processed_df, _rosters_df, _absences_df, loads, rd, dsFrame>>

\* the attributes a query method reads, in the order it reads them:
\* get_player_detail and get_all_teams read the processed data and then the
\* rosters; get_game_info reads the schedule and, for a game the schedule
\* does not hold, the processed data; the ripple route reads the game from
\* the schedule and then the team's recent absences
QueryMethods == {"get_player_detail", "get_game_info", "game_ripple"}

ReadsOf(method) ==
    CASE method = "get_player_detail" -> <<"processed", "rosters">>
      [] method = "get_game_info"     -> <<"schedule", "processed">>
      [] OTHER                        -> <<"schedule", "absences">>

\* the frame an attribute refers to at the moment it is read
FrameOf(dataset) ==
    CASE dataset = "processed" -> _processed_df
      [] dataset = "rosters"   -> _rosters_df
      [] dataset = "absences"  -> _absences_df
      [] OTHER                 -> _schedule_df

BeginQuery(r, method) ==
    /\ rd[r].pc \in {"idle", "done"}
    /\ rd[r].requests < MaxRequests
    /\ rd' = [rd EXCEPT ![r] = [pc |-> "reading", method |-> method, seen |-> <<>>,
                                requests |-> @.requests + 1]]
    /\ UNCHANGED <<_processed_df, _rosters_df, _absences_df, _schedule_df, ldPc, loads,
                   dsFrame>>

\* the next read of self._<dataset>_df; the method returns after its last
ReadDataset(r) ==
    /\ rd[r].pc = "reading"
    /\ LET reads == ReadsOf(rd[r].method)
           n == Len(rd[r].seen) + 1
           seen == Append(rd[r].seen, [dataset |-> reads[n], load |-> FrameOf(reads[n])])
       IN  rd' = [rd EXCEPT ![r].seen = seen,
                            ![r].pc = IF n = Len(reads) THEN "done" ELSE "reading"]
    /\ UNCHANGED <<_processed_df, _rosters_df, _absences_df, _schedule_df, ldPc, loads,
                   dsFrame>>

DataStoreNext ==
    \/ LoadAllBuild
    \/ SwapProcessed
    \/ SwapRosters
    \/ SwapAbsences
    \/ SwapSchedule
    \/ \E r \in Readers, method \in QueryMethods : BeginQuery(r, method)
    \/ \E r \in Readers : ReadDataset(r)

SpecDataStore == DataStoreInit /\ [][DataStoreNext]_vars

\* C27: a request that reads more than one of the four datasets while
\* load_all runs sees them all from the same load, all from before the
\* reload or all from after it
C27_ReaderSeesOneLoad ==
    \A r \in Readers :
        \A i, j \in DOMAIN rd[r].seen : rd[r].seen[i].load = rd[r].seen[j].load


(***************************************************************************)
(* The refresh runs.  POST /api/admin/refresh is a synchronous route, run  *)
(* by a worker thread per request (admin.py:20-49); the daily job is run   *)
(* by the BackgroundScheduler's own thread, which calls run_refresh_job    *)
(* directly (scheduler.py:217-231).                                        *)
(***************************************************************************)
MaxAdminRequests == 2
MaxScheduledRuns == 2

rfFrame == <<coreVars, dsVars, chVars, clVars>>

RefreshInit ==
    /\ CoreIdle
    /\ DataStoreIdle
    /\ RefreshIdle
    /\ ChatIdle
    /\ CollectIdle

\* executions of run_refresh_job in progress
RunsInProgress ==
    Cardinality({t \in AdminThreads : adm[t].pc = "running"})
        + (IF job.pc = "running" THEN 1 ELSE 0)

\* lines 29-33: the request arrives and its key is checked
TriggerRefresh(t, key_ok) ==
    /\ adm[t].pc \in {"idle", "done"}
    /\ adm[t].requests < MaxAdminRequests
    /\ adm' = [adm EXCEPT ![t] =
                  IF key_ok
                  THEN [pc |-> "guard", response |-> 0, busy_at_guard |-> FALSE,
                        requests |-> @.requests + 1]
                  ELSE [pc |-> "done", response |-> 403, busy_at_guard |-> FALSE,
                        requests |-> @.requests + 1]]
    /\ UNCHANGED <<_refresh_in_progress, job, rfFrame>>

\* lines 36-37: the guard is read
CheckGuard(t) ==
    /\ adm[t].pc = "guard"
    /\ adm' = [adm EXCEPT ![t] =
                  IF _refresh_in_progress
                  THEN [@ EXCEPT !.pc = "done", !.response = 409,
                                 !.busy_at_guard = RunsInProgress > 0]
                  ELSE [@ EXCEPT !.pc = "set", !.busy_at_guard = RunsInProgress > 0]]
    /\ UNCHANGED <<_refresh_in_progress, job, rfFrame>>

\* lines 39-43: the guard is set and run_refresh_job is called
SetGuardAndRun(t) ==
    /\ adm[t].pc = "set"
    /\ _refresh_in_progress' = TRUE
    /\ adm' = [adm EXCEPT ![t].pc = "running"]
    /\ UNCHANGED <<job, rfFrame>>

\* lines 44-49: the run returns or raises, and the finally clause clears the guard
FinishRefresh(t, succeeded) ==
    /\ adm[t].pc = "running"
    /\ _refresh_in_progress' = FALSE
    /\ adm' = [adm EXCEPT ![t].pc = "done",
                          ![t].response = IF succeeded THEN 200 ELSE 500]
    /\ UNCHANGED <<job, rfFrame>>

\* the cron trigger fires; APScheduler runs one instance of a job at a time
ScheduledStart ==
    /\ job.pc = "idle"
    /\ job.runs < MaxScheduledRuns
    /\ job' = [pc |-> "running", runs |-> job.runs + 1]
    /\ UNCHANGED <<_refresh_in_progress, adm, rfFrame>>

ScheduledFinish ==
    /\ job.pc = "running"
    /\ job' = [job EXCEPT !.pc = "idle"]
    /\ UNCHANGED <<_refresh_in_progress, adm, rfFrame>>

RefreshNext ==
    \/ \E t \in AdminThreads, key_ok \in BOOLEAN : TriggerRefresh(t, key_ok)
    \/ \E t \in AdminThreads : CheckGuard(t)
    \/ \E t \in AdminThreads : SetGuardAndRun(t)
    \/ \E t \in AdminThreads, succeeded \in BOOLEAN : FinishRefresh(t, succeeded)
    \/ ScheduledStart
    \/ ScheduledFinish

SpecRefresh == RefreshInit /\ [][RefreshNext]_vars

\* C28: two executions of run_refresh_job are never in progress at once; a
\* refresh request that reaches the guard while a run is in progress is
\* answered 409; and the guard is clear whenever no requested run is in
\* progress, after a success as after a failure
C28_RefreshRunsNeverOverlap ==
    /\ RunsInProgress <= 1
    /\ \A t \in AdminThreads :
          (adm[t].pc \in {"set", "running", "done"} /\ adm[t].busy_at_guard)
              => adm[t].response = 409
    /\ (\A t \in AdminThreads : adm[t].pc # "running") => ~_refresh_in_progress


(***************************************************************************)
(* The daily chat limit.  POST /api/chat is a synchronous route: every     *)
(* request runs on a worker thread with a database session of its own      *)
(* (get_db).  check_chat_rate_limit loads the day's ChatUsage row into the *)
(* session, the route answers the question, and at its end it adds one to  *)
(* the loaded object's question_count and commits.  One user and one day   *)
(* are modelled.                                                           *)
(***************************************************************************)
\* settings.CHAT_DAILY_LIMIT, read from the environment (api/config.py:41)
CHAT_DAILY_LIMIT == 2
MaxChatRequests == 2

chFrame == <<coreVars, dsVars, rfVars, clVars>>

\* the day starts without a usage row, or with the row of earlier requests
ChatInit ==
    /\ CoreIdle
    /\ DataStoreIdle
    /\ RefreshIdle
    /\ CollectIdle
    /\ chat_usage \in {<<>>, <<0>>, <<CHAT_DAILY_LIMIT - 1>>, <<CHAT_DAILY_LIMIT>>}
    /\ ch = [t \in ChatThreads |-> IdleChat]
    /\ answered = IF chat_usage = <<>> THEN 0 ELSE chat_usage[1]

\* dependencies.py:83-92 on the object the session holds
LimitCheck(c) ==
    IF c.question_count >= CHAT_DAILY_LIMIT
    THEN [c EXCEPT !.pc = "done", !.response = 429]
    ELSE [c EXCEPT !.pc = "chat"]

\* dependencies.py:67-74: the query for today's row.  The query has no
\* ORDER BY, so with several rows of the day any of them can be the first.
QueryUsage(t) ==
    /\ ch[t].pc \in {"idle", "done"}
    /\ ch[t].requests < MaxChatRequests
    /\ \/ /\ chat_usage = <<>>
          /\ ch' = [ch EXCEPT ![t] = [pc |-> "create", row |-> 0, question_count |-> 0,
                                      response |-> 0, requests |-> @.requests + 1]]
       \/ \E i \in DOMAIN chat_usage :
             ch' = [ch EXCEPT ![t] =
                       LimitCheck([pc |-> "query", row |-> i,
                                   question_count |-> chat_usage[i], response |-> 0,
                                   requests |-> @.requests + 1])]
    /\ UNCHANGED <<chat_usage, answered, chFrame>>

\* dependencies.py:77-81: no row was found; one is inserted and read back
CreateUsage(t) ==
    /\ ch[t].pc = "create"
    /\ chat_usage' = Append(chat_usage, 0)
    /\ ch' = [ch EXCEPT ![t] = LimitCheck([@ EXCEPT !.row = Len(chat_usage) + 1,
                                                    !.question_count = 0])]
    /\ UNCHANGED <<answered, chFrame>>

\* chat.py:671-672 and 785-786: the question is answered,
\* usage.question_count += 1 on the session's object, and the commit
\* writes that value to the row
AnswerAndCount(t) ==
    /\ ch[t].pc = "chat"
    /\ chat_usage' = [chat_usage EXCEPT ![ch[t].row] = ch[t].question_count + 1]
    /\ ch' = [ch EXCEPT ![t].pc = "done", ![t].response = 200,
                        ![t].question_count = @ + 1]
    /\ answered' = answered + 1
    /\ UNCHANGED chFrame

\* chat.py:647-650 and 746-763: the chat service is not configured or the
\* API call fails; nothing is counted
ChatFails(t) ==
    /\ ch[t].pc = "chat"
    /\ ch' = [ch EXCEPT ![t].pc = "done", ![t].response = 503]
    /\ UNCHANGED <<chat_usage, answered, chFrame>>

ChatNext ==
    \/ \E t \in ChatThreads : QueryUsage(t)
    \/ \E t \in ChatThreads : CreateUsage(t)
    \/ \E t \in ChatThreads : AnswerAndCount(t)
    \/ \E t \in ChatThreads : ChatFails(t)

SpecChat == ChatInit /\ [][ChatNext]_vars

\* C29: the chat questions of a user answered on one day, and the day's
\* question_count, never exceed CHAT_DAILY_LIMIT, also when requests of
\* the user are handled concurrently; a request that finds the count at
\* the limit is rejected with 429
C29_DailyLimitNeverExceeded ==
    /\ answered <= CHAT_DAILY_LIMIT
    /\ \A i \in DOMAIN chat_usage : chat_usage[i] <= CHAT_DAILY_LIMIT
    /\ \A t \in ChatThreads :
          (ch[t].pc \in {"chat", "done"} /\ ch[t].response # 429 /\ ch[t].row # 0)
              => ch[t].question_count <= CHAT_DAILY_LIMIT


(***************************************************************************)
(* The game-log collection script (scripts/collect_player_stats.py).  A    *)
(* run loads the checkpoint, collects the seasons the checkpoint does not  *)
(* list, collects the rosters, writes player_game_logs.csv and deletes the *)
(* checkpoint.  The process can be interrupted at any point, which loses   *)
(* its local variables and keeps the files.                                *)
(***************************************************************************)
SEASONS == <<"2022-23", "2023-24", "2024-25">>
MaxRuns == 3

clFrame == <<coreVars, dsVars, rfVars, chVars>>

SeasonsOf(rows) == {r[1] : r \in rows}

\* before the first run: no checkpoint, and no output or the output of an
\* earlier complete collection
CollectInit ==
    /\ CoreIdle
    /\ DataStoreIdle
    /\ RefreshIdle
    /\ ChatIdle
    /\ checkpoint_file = {}
    /\ output_game_logs \in {NoFile, [exists |-> TRUE,
                                      rows |-> {<<s, 0>> : s \in Range(SEASONS)}]}
    /\ cl = Stopped

\* main, lines 398-409: load_checkpoint and the call of collect_game_logs_bulk,
\* up to line 90
StartRun ==
    /\ cl.pc \in {"stopped", "complete"}
    /\ cl.run < MaxRuns
    /\ cl' = [pc |-> "load_existing", run |-> cl.run + 1,
              completed_seasons |-> checkpoint_file, all_dfs |-> {}, idx |-> 1,
              game_logs |-> NoFrame, short |-> cl.short]
    /\ UNCHANGED <<checkpoint_file, output_game_logs, clFrame>>

\* lines 92-96
LoadExisting ==
    /\ cl.pc = "load_existing"
    /\ cl' = [cl EXCEPT !.pc = "loop",
                        !.all_dfs = IF output_game_logs.exists /\ cl.completed_seasons # {}
                                    THEN output_game_logs.rows ELSE {}]
    /\ UNCHANGED <<checkpoint_file, output_game_logs, clFrame>>

\* lines 98-101: a season of the checkpoint is skipped
SkipSeason ==
    /\ cl.pc = "loop"
    /\ cl.idx <= Len(SEASONS)
    /\ SEASONS[cl.idx] \in cl.completed_seasons
    /\ cl' = [cl EXCEPT !.idx = @ + 1]
    /\ UNCHANGED <<checkpoint_file, output_game_logs, clFrame>>

\* lines 103-132: the season is fetched; a response of fewer than
\* MIN_ROWS_PER_SEASON rows makes the function return an empty frame,
\* otherwise the rows are appended and the checkpoint is saved
CollectSeason(enough_rows) ==
    /\ cl.pc = "loop"
    /\ cl.idx <= Len(SEASONS)
    /\ SEASONS[cl.idx] \notin cl.completed_seasons
    /\ IF enough_rows
       THEN /\ cl' = [cl EXCEPT !.all_dfs = @ \cup {<<SEASONS[cl.idx], cl.run>>},
                                !.completed_seasons = @ \cup {SEASONS[cl.idx]},
                                !.idx = @ + 1]
            /\ checkpoint_file' = cl.completed_seasons \cup {SEASONS[cl.idx]}
       ELSE /\ cl' = [cl EXCEPT !.pc = "main", !.game_logs = NoFrame, !.short = TRUE]
            /\ UNCHANGED checkpoint_file
    /\ UNCHANGED <<output_game_logs, clFrame>>

\* lines 134-182: the frames are concatenated and the columns of the API
\* are renamed and selected.  The rows loaded from the output file carry
\* the renamed columns already, so when no season was fetched in this run
\* no column is selected and the frame is empty.
CombineFrames ==
    /\ cl.pc = "loop"
    /\ cl.idx > Len(SEASONS)
    /\ LET fetched == {r \in cl.all_dfs : r[2] = cl.run}
       IN  cl' = [cl EXCEPT !.pc = "main",
                            !.game_logs = IF fetched = {} THEN NoFrame
                                          ELSE [empty |-> FALSE, rows |-> cl.all_dfs]]
    /\ UNCHANGED <<checkpoint_file, output_game_logs, clFrame>>

\* main, lines 411-424: the per-player fallback when the bulk collection
\* returned nothing and the checkpoint lists no season (taken here at its
\* best outcome, the rows of every season), otherwise the rosters
FallbackOrRosters ==
    /\ cl.pc = "main"
    /\ cl' = [cl EXCEPT !.pc = "save",
                        !.game_logs =
                            IF cl.game_logs.empty /\ cl.completed_seasons = {}
                            THEN [empty |-> FALSE,
                                  rows |-> {<<s, cl.run>> : s \in Range(SEASONS)}]
                            ELSE @]
    /\ UNCHANGED <<checkpoint_file, output_game_logs, clFrame>>

\* main, lines 426-428
SaveGameLogs ==
    /\ cl.pc = "save"
    /\ output_game_logs' = IF cl.game_logs.empty THEN output_game_logs
                           ELSE [exists |-> TRUE, rows |-> cl.game_logs.rows]
    /\ cl' = [cl EXCEPT !.pc = "cleanup"]
    /\ UNCHANGED <<checkpoint_file, clFrame>>

\* main, lines 457-461: the checkpoint is deleted
CleanUpCheckpoint ==
    /\ cl.pc = "cleanup"
    /\ checkpoint_file' = {}
    /\ cl' = [cl EXCEPT !.pc = "complete"]
    /\ UNCHANGED <<output_game_logs, clFrame>>

\* the process is killed, or an API call fails after its retries
Interrupt ==
    /\ cl.pc \notin {"stopped", "complete"}
    /\ cl' = [Stopped EXCEPT !.run = cl.run, !.short = cl.short]
    /\ UNCHANGED <<checkpoint_file, output_game_logs, clFrame>>

CollectNext ==
    \/ StartRun
    \/ LoadExisting
    \/ SkipSeason
    \/ \E enough_rows \in BOOLEAN : CollectSeason(enough_rows)
    \/ CombineFrames
    \/ FallbackOrRosters
    \/ SaveGameLogs
    \/ CleanUpCheckpoint
    \/ Interrupt

SpecCollect == CollectInit /\ [][CollectNext]_vars

\* C30: in a run of the collection, resumed or not, every season the
\* checkpoint records as completed has rows among the frames of the run,
\* and when a run has completed (no response having come short) the
\* game-log output exists and holds rows of every season in SEASONS
C30_ResumeLosesNoSeason ==
    /\ cl.pc = "loop" => cl.completed_seasons \subseteq SeasonsOf(cl.all_dfs)
    /\ (cl.pc = "complete" /\ ~cl.short)
          => /\ output_game_logs.exists
             /\ Range(SEASONS) \subseteq SeasonsOf(output_game_logs.rows)

=============================================================================
